---- MODULE Spec2Model ----
(***************************************************************************)
(* Model of the quoting backend of the 3D-print-on-demand service.         *)
(*                                                                         *)
(* The pricing engine (backend/services/pricing_service.py) is modelled    *)
(* in full.  A Python float is modelled as the exact rational [n, d] (in   *)
(* lowest terms, d > 0) that it approximates: on the arguments of the      *)
(* model the amounts the code computes differ from the exact ones by       *)
(* rounding error only (0.6000000000000001 for 0.6), and every comparison  *)
(* the code makes has the outcome it has on the exact values.  A Python    *)
(* string is a sequence of one-character strings.  An Optional value is a  *)
(* sequence of length 0 (None) or 1.                                       *)
(***************************************************************************)
EXTENDS Integers, Sequences, FiniteSets, TLC

(***************************************************************************)
(* Bounds of the model.                                                    *)
(***************************************************************************)
MaxQuantity == 11
MaxTokens == 3

\* the request threads that share the engine
MaxThreads == 2

(***************************************************************************)
(* Exact rational arithmetic standing for Python float arithmetic.         *)
(***************************************************************************)
RECURSIVE GCD(_, _)
GCD(a, b) == IF b = 0 THEN a ELSE GCD(b, a % b)

Abs(k) == IF k < 0 THEN -k ELSE k

Frac(n, d) ==
    LET g == GCD(Abs(n), d)
    IN  IF n = 0 THEN [n |-> 0, d |-> 1] ELSE [n |-> n \div g, d |-> d \div g]

Int2R(k) == [n |-> k, d |-> 1]

RZero == Int2R(0)

RAdd(a, b) ==
    LET g == GCD(a.d, b.d)
    IN  Frac(a.n * (b.d \div g) + b.n * (a.d \div g), (a.d \div g) * b.d)

RNeg(a) == [n |-> -a.n, d |-> a.d]

RSub(a, b) == RAdd(a, RNeg(b))

RMul(a, b) ==
    LET g1 == GCD(Abs(a.n), b.d)
        g2 == GCD(Abs(b.n), a.d)
    IN  IF a.n = 0 \/ b.n = 0 THEN RZero
        ELSE [n |-> (a.n \div g1) * (b.n \div g2), d |-> (a.d \div g2) * (b.d \div g1)]

RDiv(a, b) ==
    RMul(a, IF b.n < 0 THEN [n |-> -b.d, d |-> -b.n] ELSE [n |-> b.d, d |-> b.n])

RAbs(a) == [n |-> Abs(a.n), d |-> a.d]

RLt(a, b) == a.n * b.d < b.n * a.d

RLe(a, b) == a.n * b.d <= b.n * a.d

(***************************************************************************)
(* Python strings as sequences of characters; str.upper() and `in`.        *)
(***************************************************************************)
LowerCase == <<"a", "b", "c", "d", "e", "f", "g", "h", "i", "j", "k", "l", "m",
               "n", "o", "p", "q", "r", "s", "t", "u", "v", "w", "x", "y", "z">>

UpperCase == <<"A", "B", "C", "D", "E", "F", "G", "H", "I", "J", "K", "L", "M",
               "N", "O", "P", "Q", "R", "S", "T", "U", "V", "W", "X", "Y", "Z">>

UpperChar(c) ==
    IF \E i \in DOMAIN LowerCase : LowerCase[i] = c
    THEN UpperCase[CHOOSE i \in DOMAIN LowerCase : LowerCase[i] = c]
    ELSE c

Upper(s) == [i \in DOMAIN s |-> UpperChar(s[i])]

Contains(hay, needle) ==
    \E i \in 0..(Len(hay) - Len(needle)) : SubSeq(hay, i + 1, i + Len(needle)) = needle

PLA == <<"P", "L", "A">>
ABS == <<"A", "B", "S">>
PETG == <<"P", "E", "T", "G">>
TPU == <<"T", "P", "U">>

(***************************************************************************)
(* PricingEngine.__init__: the catalog is a dict, that is a mapping that   *)
(* iterates in insertion order; it is modelled as the sequence of its      *)
(* items.                                                                  *)
(***************************************************************************)
InitialCatalog ==
    << [key |-> PLA,  cost_per_gram |-> Frac(5, 100),  density |-> Frac(124, 100),
        available |-> TRUE, machine_cost_multiplier |-> Frac(100, 100)],
       [key |-> ABS,  cost_per_gram |-> Frac(7, 100),  density |-> Frac(104, 100),
        available |-> TRUE, machine_cost_multiplier |-> Frac(120, 100)],
       [key |-> PETG, cost_per_gram |-> Frac(8, 100),  density |-> Frac(127, 100),
        available |-> TRUE, machine_cost_multiplier |-> Frac(115, 100)],
       [key |-> TPU,  cost_per_gram |-> Frac(15, 100), density |-> Frac(121, 100),
        available |-> TRUE, machine_cost_multiplier |-> Frac(150, 100)] >>

CatalogKeys(catalog) == {catalog[i].key : i \in DOMAIN catalog}

CatalogGet(catalog, key) == catalog[CHOOSE i \in DOMAIN catalog : catalog[i].key = key]

(***************************************************************************)
(* PricingEngine._normalize_material_type, for a str argument.             *)
(***************************************************************************)
\* the loop returning the longest catalog key that occurs, not the first
PartialMatch_Longest(catalog, material_upper, i) ==
    LET found == {k \in DOMAIN catalog : Contains(material_upper, catalog[k].key)}
    IN  IF found = {} THEN <<"P", "L", "A">>
        ELSE catalog[CHOOSE k \in found :
                         \A j \in found : Len(catalog[j].key) <= Len(catalog[k].key)].key

\* the loop with the fallback returning the loop variable, that is the last key
RECURSIVE PartialMatch_LastKey(_, _, _)
PartialMatch_LastKey(catalog, material_upper, i) ==
    IF i > Len(catalog) THEN catalog[Len(catalog)].key
    ELSE IF Contains(material_upper, catalog[i].key) THEN catalog[i].key
    ELSE PartialMatch_LastKey(catalog, material_upper, i + 1)

RECURSIVE PartialMatch(_, _, _)
PartialMatch(catalog, material_upper, i) ==
    IF i > Len(catalog) THEN PLA
    ELSE IF Contains(material_upper, catalog[i].key) THEN catalog[i].key
    ELSE PartialMatch(catalog, material_upper, i + 1)

normalize_material_type(catalog, material_type) ==
    LET material_upper == Upper(material_type)
    IN  IF material_upper \in CatalogKeys(catalog) THEN material_upper
        ELSE PartialMatch(catalog, material_upper, 1)

(***************************************************************************)
(* Python values.  A value carries its type tag; numbers (int and float)   *)
(* carry their rational value.  Missing marks a key that a dict does not   *)
(* hold.                                                                   *)
(***************************************************************************)
Num(r) == [t |-> "num", n |-> r.n, d |-> r.d]

PyInt(k) == Num(Int2R(k))

PyStr == [t |-> "str", n |-> 0, d |-> 1]

PyBool(b) == [t |-> "bool", n |-> IF b THEN 1 ELSE 0, d |-> 1]

Missing == [t |-> "missing", n |-> 0, d |-> 1]

IsNumber(v) == v.t \in {"num", "bool"}

R(v) == [n |-> v.n, d |-> v.d]

\* bool(v)
Truthy(v) ==
    CASE v.t \in {"num", "bool"} -> v.n # 0
      [] v.t = "str" -> TRUE
      [] OTHER -> FALSE

\* a lookup that hands back what is stored and ignores the default
DictGet_NoDefault(stored, default) == stored

\* dict.get(key, default) on the value stored under the key
DictGet(stored, default) == IF stored.t = "missing" THEN default ELSE stored

\* format(x, '.1f'): the nearest tenth, ties to even
FormatFixed1(r) ==
    LET x == RMul(r, Int2R(10))
        q == x.n \div x.d
        rem == x.n - q * x.d
        up == \/ 2 * rem > x.d
              \/ 2 * rem = x.d /\ q % 2 = 1
    IN  Frac(IF up THEN q + 1 ELSE q, 10)

\* round(x, 2), as the quote route applies it to the amounts it sends: the
\* nearest hundredth, ties to even
Round2(r) ==
    LET x == RMul(r, Int2R(100))
        q == x.n \div x.d
        rem == x.n - q * x.d
        up == \/ 2 * rem > x.d
              \/ 2 * rem = x.d /\ q % 2 = 1
    IN  Frac(IF up THEN q + 1 ELSE q, 100)

\* int(x): truncation toward zero
Trunc(r) == IF r.n >= 0 THEN r.n \div r.d ELSE -((-r.n) \div r.d)

(***************************************************************************)
(* QuoteResult (dataclass) and the two ways the engine builds it.          *)
(***************************************************************************)
QuoteResult(success, material_cost, time_cost, complexity_adjustment, overhead_cost, profit_margin, subtotal, total_cost, breakdown_details, error_message) ==
    [success |-> success, material_cost |-> material_cost, time_cost |-> time_cost,
     complexity_adjustment |-> complexity_adjustment, overhead_cost |-> overhead_cost,
     profit_margin |-> profit_margin, subtotal |-> subtotal, total_cost |-> total_cost,
     breakdown_details |-> breakdown_details, error_message |-> error_message]

\* a line whose total is its unit price, whatever the quantity
Line_TotalIsUnitPrice(category, fmt, s, v, quantity, unitPrice, total) ==
    [category |-> category, description |-> [fmt |-> fmt, s |-> s, v |-> v],
     quantity |-> quantity, unitPrice |-> unitPrice, total |-> unitPrice]

\* lines 136-142: one entry of breakdown_details
Line(category, fmt, s, v, quantity, unitPrice, total) ==
    [category |-> category, description |-> [fmt |-> fmt, s |-> s, v |-> v],
     quantity |-> quantity, unitPrice |-> unitPrice, total |-> total]

Raise(type, message) ==
    [raised |-> TRUE, type |-> type, message |-> message, value |-> <<>>]

Returns(result) ==
    [raised |-> FALSE, type |-> "", message |-> "", value |-> <<result>>]

EmptyOptions == [t |-> "dict", quantity |-> Missing, rush_order |-> Missing]

\* the adjustment with the score normalised over the whole 0..100 scale
ComplexityAdjustment_Over100(time_cost, complexity_score) ==
    LET complexity_factor == RDiv(complexity_score, Int2R(100))
    IN  RMul(RMul(time_cost, RSub(complexity_factor, Int2R(1))), Frac(2, 10))

\* lines 101-102: complexity_factor and complexity_adjustment
ComplexityAdjustment(time_cost, complexity_score) ==
    LET complexity_factor == RDiv(complexity_score, Int2R(50))
    IN  RMul(RMul(time_cost, RSub(complexity_factor, Int2R(1))), Frac(2, 10))

\* the discount rates written as percentages instead of fractions
QuantityDiscount_Percent(quantity) ==
    IF RLe(Int2R(10), quantity) THEN Int2R(10)
    ELSE IF RLe(Int2R(5), quantity) THEN Int2R(5)
    ELSE RZero

\* the discount with each threshold compared strictly
QuantityDiscount_Strict(quantity) ==
    IF RLt(Int2R(10), quantity) THEN Frac(10, 100)
    ELSE IF RLt(Int2R(5), quantity) THEN Frac(5, 100)
    ELSE RZero

\* lines 106-110: the quantity discount
QuantityDiscount(quantity) ==
    IF RLe(Int2R(10), quantity) THEN Frac(10, 100)
    ELSE IF RLe(Int2R(5), quantity) THEN Frac(5, 100)
    ELSE RZero

\* the surcharge taken with the whole multiplier instead of its excess over 1
RushSurcharge_WholeMultiplier(time_cost, quantity, rush_order, rush_multiplier) ==
    IF rush_order THEN RMul(RMul(time_cost, quantity), rush_multiplier) ELSE RZero

\* line 122: the rush surcharge
RushSurcharge(time_cost, quantity, rush_order, rush_multiplier) ==
    IF rush_order
    THEN RMul(RMul(time_cost, quantity), RSub(rush_multiplier, Int2R(1)))
    ELSE RZero

\* the margin taken on the subtotal with overhead, the surcharge left out
ProfitMargin_NoSurcharge(subtotal, overhead_cost, rush_surcharge, rate) ==
    RMul(RAdd(subtotal, overhead_cost), rate)

\* the margin taken on the subtotal alone
ProfitMargin_SubtotalOnly(subtotal, overhead_cost, rush_surcharge, rate) ==
    RMul(subtotal, rate)

\* the margin taken as a markup that brings the rate as a share of the total
ProfitMargin_ShareOfTotal(subtotal, overhead_cost, rush_surcharge, rate) ==
    RDiv(RMul(RAdd(RAdd(subtotal, overhead_cost), rush_surcharge), rate),
         RSub(Int2R(1), rate))

\* lines 128-129: the profit margin, on the subtotal with overhead and surcharge
ProfitMargin(subtotal, overhead_cost, rush_surcharge, rate) ==
    RMul(RAdd(RAdd(subtotal, overhead_cost), rush_surcharge), rate)

\* the threshold of the Adjustments line applied to the line's total
SignificantAdjustment_Inclusive(complexity_adjustment) ==
    RLe(Frac(5, 10), RAbs(complexity_adjustment))

\* line 163: is the complexity adjustment significant enough to be listed
SignificantAdjustment(complexity_adjustment) ==
    RLt(Frac(5, 10), RAbs(complexity_adjustment))

\* lines 134-181: the breakdown list, built by appending
BreakdownDetails(material_type, filament_grams, print_time_minutes, complexity_score, quantity, rush_order, material_cost, time_cost, complexity_adjustment, quantity_discount, base_cost, rush_surcharge) ==
    LET first ==
            << Line("Materials", "{} filament ({:.1f}g)", material_type.s,
                    FormatFixed1(filament_grams),
                    quantity, material_cost, RMul(material_cost, quantity)),
               Line("Production", "Printing time ({:.1f} hours)", <<>>,
                    FormatFixed1(RDiv(print_time_minutes, Int2R(60))),
                    quantity, time_cost, RMul(time_cost, quantity)) >>
        surcharges ==
            IF rush_order
            THEN << Line("Surcharges", "Rush order premium", <<>>, RZero,
                         Int2R(1), rush_surcharge, rush_surcharge) >>
            ELSE << >>
        adjustments ==
            IF SignificantAdjustment(complexity_adjustment)
            THEN << Line("Adjustments", "Complexity {}/100", <<>>, complexity_score,
                         quantity, complexity_adjustment,
                         RMul(complexity_adjustment, quantity)) >>
            ELSE << >>
        discount_amount == RMul(RMul(base_cost, quantity), quantity_discount)
        discounts ==
            IF RLt(RZero, quantity_discount)
            THEN << Line("Discounts", "Quantity discount ({}%)", <<>>,
                         Int2R(Trunc(RMul(quantity_discount, Int2R(100)))),
                         Int2R(1), RNeg(discount_amount), RNeg(discount_amount)) >>
            ELSE << >>
    IN  first \o surcharges \o adjustments \o discounts

\* the catalog with the entry of the key moved to the front, as a
\* most-recently-used cache would keep it
CatalogAfterCall_MoveToFront(catalog, material_key, rush_order) ==
    LET i == CHOOSE k \in DOMAIN catalog : catalog[k].key = material_key
    IN  <<catalog[i]>> \o SubSeq(catalog, 1, i - 1) \o SubSeq(catalog, i + 1, Len(catalog))

\* the catalog with the rush multiplier written into the entry of the key
CatalogAfterCall_RushInPlace(catalog, material_key, rush_order) ==
    [k \in DOMAIN catalog |->
        IF catalog[k].key = material_key /\ rush_order
        THEN [catalog[k] EXCEPT !.machine_cost_multiplier = Frac(15, 10)]
        ELSE catalog[k]]

\* lines 88-181: the catalog after a calculation that resolved material_key;
\* the calculation reads the keys and the entry and assigns to neither
CatalogAfterCall(catalog, material_key, rush_order) == catalog

(***************************************************************************)
(* The body of the try block of calculate_comprehensive_quote (lines       *)
(* 77-194), statement by statement: either the QuoteResult it returns or   *)
(* the exception the first failing statement raises.  self is the engine.  *)
(***************************************************************************)
TryBody(self, analysis_data, material_type, additional_options) ==
    LET options == IF additional_options.t = "NoneType" THEN EmptyOptions
                   ELSE additional_options
    IN
    IF analysis_data.t # "dict"
    THEN Raise("AttributeError", "object has no attribute 'get'")
    ELSE
    LET filament_grams == DictGet(analysis_data.filament_used_grams, Num(Frac(500, 10)))
        print_time_minutes == DictGet(analysis_data.print_time_minutes, Num(Frac(1200, 10)))
        complexity_score == DictGet(analysis_data.complexity_score, PyInt(50))
    IN
    IF material_type.t # "str"
    THEN Raise("AttributeError", "object has no attribute 'upper'")
    ELSE
    LET material_key == normalize_material_type(self.material_catalog, material_type.s)
        material_info ==
            IF material_key \in CatalogKeys(self.material_catalog)
            THEN CatalogGet(self.material_catalog, material_key)
            ELSE CatalogGet(self.material_catalog, PLA)
    IN
    IF ~IsNumber(filament_grams)
    THEN Raise("TypeError", "unsupported operand type(s) for *")
    ELSE
    LET material_cost == RMul(R(filament_grams), material_info.cost_per_gram)
        machine_cost_multiplier == material_info.machine_cost_multiplier
    IN
    IF ~IsNumber(print_time_minutes)
    THEN Raise("TypeError", "unsupported operand type(s) for /")
    ELSE
    LET time_cost == RMul(RMul(RDiv(R(print_time_minutes), Int2R(60)),
                               self.machine_cost_per_hour),
                          machine_cost_multiplier)
    IN
    IF ~IsNumber(complexity_score)
    THEN Raise("TypeError", "unsupported operand type(s) for /")
    ELSE
    LET complexity_adjustment == ComplexityAdjustment(time_cost, R(complexity_score))
    IN
    IF options.t # "dict"
    THEN Raise("AttributeError", "object has no attribute 'get'")
    ELSE
    LET quantity_value == DictGet(options.quantity, PyInt(1))
    IN
    IF ~IsNumber(quantity_value)
    THEN Raise("TypeError", "'>=' not supported between instances")
    ELSE
    LET quantity == R(quantity_value)
        quantity_discount == QuantityDiscount(quantity)
        rush_order == Truthy(DictGet(options.rush_order, PyBool(FALSE)))
        rush_multiplier == IF rush_order THEN Frac(15, 10) ELSE Int2R(1)
        base_cost == RAdd(RAdd(material_cost, time_cost), complexity_adjustment)
        subtotal == RMul(RMul(base_cost, quantity), RSub(Int2R(1), quantity_discount))
        rush_surcharge == RushSurcharge(time_cost, quantity, rush_order, rush_multiplier)
        overhead_cost == RMul(subtotal, self.overhead_rate)
        subtotal_with_overhead == RAdd(RAdd(subtotal, overhead_cost), rush_surcharge)
        profit_margin ==
            ProfitMargin(subtotal, overhead_cost, rush_surcharge, self.profit_margin)
        total_cost == RAdd(subtotal_with_overhead, profit_margin)
        breakdown_details ==
            BreakdownDetails(material_type, R(filament_grams), R(print_time_minutes),
                             R(complexity_score), quantity, rush_order, material_cost,
                             time_cost, complexity_adjustment, quantity_discount,
                             base_cost, rush_surcharge)
    IN  Returns(QuoteResult(TRUE, material_cost, time_cost, complexity_adjustment,
                            overhead_cost, profit_margin, subtotal, total_cost,
                            <<breakdown_details>>, <<>>))

\* an except clause that names the type errors only
ExceptClause_TypeErrorOnly(type) == type = "TypeError"

\* line 195: `except Exception` catches every exception class derived from Exception
ExceptClause(type) ==
    type \in {"AttributeError", "TypeError", "KeyError", "ValueError", "ZeroDivisionError",
              "OverflowError"}

\* lines 12-22 and 197-200: QuoteResult(success=False, error_message=...)
ErrorResult(message) ==
    QuoteResult(FALSE, RZero, RZero, RZero, RZero, RZero, RZero, RZero, <<>>,
                << <<"Pricing calculation failed: ", message>> >>)

\* lines 68-200: what the call does for its caller
calculate_comprehensive_quote(self, analysis_data, material_type, additional_options) ==
    LET body == TryBody(self, analysis_data, material_type, additional_options)
    IN  IF body.raised /\ ExceptClause(body.type)
        THEN Returns(ErrorResult(body.message))
        ELSE body

(***************************************************************************)
(* The arguments the model calls the engine with.                          *)
(***************************************************************************)
Str(s) == [t |-> "str", s |-> s]

NoneMaterial == [t |-> "NoneType", s |-> <<>>]

Tokens ==
    { PLA, <<"p", "l", "a">>, <<"a", "b", "s", "/">>, ABS, <<"p", "e", "t", "g">>, PETG,
      <<"t", "p", "u", "-">>, TPU, <<" ", "B", "a", "s", "i", "c">>,
      <<" ", "b", "l", "e", "n", "d">>,
      <<"u", "n", "k", "n", "o", "w", "n", "-", "x", "y", "z">>, <<"P", "l">>, <<"a">> }

RECURSIVE LabelsOf(_)
LabelsOf(k) ==
    IF k = 0 THEN { <<>> }
    ELSE LabelsOf(k - 1) \cup { l \o t : l \in LabelsOf(k - 1), t \in Tokens }

\* every label made of at most MaxTokens tokens
Labels == LabelsOf(MaxTokens)

PLABasic == PLA \o <<" ", "B", "a", "s", "i", "c">>
AbsPlaBlend == <<"a", "b", "s", "/">> \o <<"p", "l", "a">> \o <<" ", "b", "l", "e", "n", "d">>
TpuPetg == <<"t", "p", "u", "-">> \o <<"p", "e", "t", "g">>
UnknownXyz == <<"u", "n", "k", "n", "o", "w", "n", "-", "x", "y", "z">>

\* the material_type arguments of the modelled calls: strings and a non-string
MaterialArgs ==
    { Str(l) : l \in {PLA, PLABasic, ABS, TpuPetg, UnknownXyz, <<>>} } \cup {NoneMaterial}

FilamentArgs == {PyInt(0), PyInt(50)}

PrintTimeArgs == {PyInt(0), PyInt(60), PyInt(120)}

ComplexityArgs == {PyInt(0), PyInt(25), PyInt(50), PyInt(65), PyInt(75), PyInt(100)}

\* what the slicer reports for every model
SlicedAnalysis ==
    [t |-> "dict", filament_used_grams |-> PyInt(50), print_time_minutes |-> PyInt(120),
     complexity_score |-> PyInt(65)]

\* analysis data that lacks a field, or all of them
PartialAnalysis ==
    { [SlicedAnalysis EXCEPT !.filament_used_grams = Missing],
      [SlicedAnalysis EXCEPT !.print_time_minutes = Missing],
      [SlicedAnalysis EXCEPT !.complexity_score = Missing],
      [t |-> "dict", filament_used_grams |-> Missing, print_time_minutes |-> Missing,
       complexity_score |-> Missing] }

NotADict ==
    [t |-> "NoneType", filament_used_grams |-> Missing, print_time_minutes |-> Missing,
     complexity_score |-> Missing]

\* analysis data that is no mapping, or that holds a value that is no number
IllTypedAnalysis ==
    { NotADict,
      [SlicedAnalysis EXCEPT !.filament_used_grams = PyStr],
      [SlicedAnalysis EXCEPT !.print_time_minutes = PyStr],
      [SlicedAnalysis EXCEPT !.complexity_score = PyStr] }

AnalysisArgs ==
    [t : {"dict"}, filament_used_grams : FilamentArgs, print_time_minutes : PrintTimeArgs,
     complexity_score : ComplexityArgs]
    \cup PartialAnalysis \cup IllTypedAnalysis

QuantityArgs == {PyInt(q) : q \in 0..MaxQuantity}

RushArgs == {PyBool(TRUE), PyBool(FALSE)}

\* options that lack a key, or both
PartialOptions ==
    { [t |-> "dict", quantity |-> Missing, rush_order |-> PyBool(TRUE)],
      [t |-> "dict", quantity |-> PyInt(10), rush_order |-> Missing],
      [t |-> "dict", quantity |-> Missing, rush_order |-> Missing] }

\* options that are no mapping (None stands for no options), or whose
\* quantity is no number
OtherOptions ==
    { [t |-> "NoneType", quantity |-> Missing, rush_order |-> Missing],
      [t |-> "list", quantity |-> Missing, rush_order |-> Missing],
      [t |-> "dict", quantity |-> PyStr, rush_order |-> Missing] }

OptionsArgs ==
    [t : {"dict"}, quantity : QuantityArgs, rush_order : RushArgs]
    \cup PartialOptions \cup OtherOptions

(***************************************************************************)
(* State: the engine's attributes, and the call in progress.               *)
(***************************************************************************)
VARIABLES
    material_catalog,      \* PricingEngine._material_catalog
    machine_cost_per_hour, \* PricingEngine._machine_cost_per_hour
    overhead_rate,         \* PricingEngine._overhead_rate
    profit_margin,         \* PricingEngine._profit_margin
    pc,                    \* "idle", "quoted" (calculate has returned), "normalized"
    call,                  \* the arguments of the last call
    outcome,               \* what the last call did: a returned value or a raised exception
    threads,               \* the calls request threads have in progress on the one engine
    server,                \* the web process: not started, failed to start, or serving
    files,                 \* the files on disk, as <<folder, name>>
    exchange,              \* the HTTP request being answered and its response
    paypal                 \* the PayPalService of the process and the requests using it

vars == <<material_catalog, machine_cost_per_hour, overhead_rate, profit_margin, pc, call,
          outcome, threads, server, files, exchange, paypal>>

web == <<server, files, exchange, paypal>>

engine == <<material_catalog, machine_cost_per_hour, overhead_rate, profit_margin>>

Self ==
    [material_catalog |-> material_catalog, machine_cost_per_hour |-> machine_cost_per_hour,
     overhead_rate |-> overhead_rate, profit_margin |-> profit_margin]

NoCall ==
    [analysis_data |-> NotADict, material_type |-> NoneMaterial,
     additional_options |-> EmptyOptions]

NoOutcome == [raised |-> FALSE, type |-> "", message |-> "", value |-> <<>>]

\* no request thread is running
NoThreads == << >>

\* no web process
NoServer == [state |-> "none"]

NoExchange == [route |-> "none"]

NoPayPal == [state |-> "none"]

\* PricingEngine.__init__
Init ==
    /\ material_catalog = InitialCatalog
    /\ machine_cost_per_hour = Frac(500, 100)
    /\ overhead_rate = Frac(10, 100)
    /\ profit_margin = Frac(20, 100)
    /\ pc = "idle"
    /\ call = NoCall
    /\ outcome = NoOutcome
    /\ threads = NoThreads
    /\ server = NoServer
    /\ files = {}
    /\ exchange = NoExchange
    /\ paypal = NoPayPal

\* a caller invokes calculate_comprehensive_quote and gets its outcome
Calculate ==
    /\ pc = "idle"
    /\ \E analysis_data \in AnalysisArgs, material_type \in MaterialArgs,
          additional_options \in OptionsArgs :
          /\ call' = [analysis_data |-> analysis_data, material_type |-> material_type,
                      additional_options |-> additional_options]
          /\ outcome' = calculate_comprehensive_quote(Self, analysis_data, material_type,
                                                      additional_options)
    /\ pc' = "quoted"
    /\ UNCHANGED <<engine, threads, web>>

\* a caller invokes _normalize_material_type on a string
Normalize ==
    /\ pc = "idle"
    /\ \E label \in Labels :
          /\ call' = [NoCall EXCEPT !.material_type = Str(label)]
          /\ outcome' = Returns(normalize_material_type(material_catalog, label))
    /\ pc' = "normalized"
    /\ UNCHANGED <<engine, threads, web>>

\* the caller is done with the outcome
Finish ==
    /\ pc # "idle"
    /\ pc' = "idle"
    /\ call' = NoCall
    /\ outcome' = NoOutcome
    /\ UNCHANGED <<engine, threads, web>>

Next ==
    \/ Calculate
    \/ Normalize
    \/ Finish

Spec == Init /\ [][Next]_vars

(***************************************************************************)
(* Request threads sharing the one engine.  A thread runs                  *)
(* calculate_comprehensive_quote in steps, one for each place where the    *)
(* method reads an attribute of the engine; between the steps of one       *)
(* thread the other threads run.                                           *)
(***************************************************************************)
Threads == 1..MaxThreads

ThreadCall(analysis_data, material_type, additional_options) ==
    [analysis_data |-> analysis_data, material_type |-> material_type,
     additional_options |-> additional_options]

RushOfTen == [t |-> "dict", quantity |-> PyInt(10), rush_order |-> PyBool(TRUE)]

NoneOptions == [t |-> "NoneType", quantity |-> Missing, rush_order |-> Missing]

\* the calls the threads make: plain, rush, a label holding two keys, and
\* two that fail
ThreadCalls ==
    { ThreadCall(SlicedAnalysis, Str(PLA), NoneOptions),
      ThreadCall(SlicedAnalysis, Str(TPU), RushOfTen),
      ThreadCall(SlicedAnalysis, Str(TpuPetg), RushOfTen),
      ThreadCall(SlicedAnalysis, NoneMaterial, RushOfTen),
      ThreadCall(NotADict, Str(PLA), NoneOptions) }

\* what a thread has read of the engine so far
Unread ==
    [material_catalog |-> << >>, machine_cost_per_hour |-> RZero, overhead_rate |-> RZero,
     profit_margin |-> RZero]

\* passed: the arguments as the caller built them; args: the same objects
\* as they are now; seen: the attributes read; result: the returned value
IdleThread ==
    [pc |-> "idle", passed |-> NoCall, args |-> NoCall, seen |-> Unread,
     result |-> NoOutcome]

InitConcurrent ==
    /\ material_catalog = InitialCatalog
    /\ machine_cost_per_hour = Frac(500, 100)
    /\ overhead_rate = Frac(10, 100)
    /\ profit_margin = Frac(20, 100)
    /\ pc = "idle"
    /\ call = NoCall
    /\ outcome = NoOutcome
    /\ threads = [t \in Threads |-> IdleThread]
    /\ server = NoServer
    /\ files = {}
    /\ exchange = NoExchange
    /\ paypal = NoPayPal

\* lines 76-84: the thread enters the method and reads its argument dicts
Begin(t) ==
    /\ threads[t].pc = "idle"
    /\ \E c \in ThreadCalls :
          threads' = [threads EXCEPT ![t] =
                         [IdleThread EXCEPT
                             !.pc = IF c.analysis_data.t = "dict" THEN "extracted"
                                    ELSE "raised",
                             !.passed = c, !.args = c]]
    /\ UNCHANGED <<engine, pc, call, outcome, web>>

\* lines 88-91: the thread reads the keys and one entry of the catalog
ReadCatalog(t) ==
    /\ threads[t].pc = "extracted"
    /\ threads' = [threads EXCEPT
                      ![t].pc = IF threads[t].args.material_type.t = "str" THEN "resolved"
                                ELSE "raised",
                      ![t].seen.material_catalog = material_catalog]
    /\ UNCHANGED <<engine, pc, call, outcome, web>>

\* lines 93-97: the thread reads the machine rate
ReadMachineRate(t) ==
    /\ threads[t].pc = "resolved"
    /\ threads' = [threads EXCEPT ![t].pc = "timed",
                                  ![t].seen.machine_cost_per_hour = machine_cost_per_hour]
    /\ UNCHANGED <<engine, pc, call, outcome, web>>

\* lines 99-181: the thread reads the overhead and margin rates and builds
\* the breakdown from the entry it holds
ReadRates(t) ==
    /\ threads[t].pc = "timed"
    /\ LET a == threads[t].args
           options == IF a.additional_options.t = "NoneType" THEN EmptyOptions
                      ELSE a.additional_options
       IN  /\ threads' = [threads EXCEPT ![t].pc = "priced",
                                         ![t].seen.overhead_rate = overhead_rate,
                                         ![t].seen.profit_margin = profit_margin]
           /\ material_catalog' =
                  CatalogAfterCall(material_catalog,
                      normalize_material_type(threads[t].seen.material_catalog,
                                              a.material_type.s),
                      Truthy(DictGet(options.rush_order, PyBool(FALSE))))
    /\ UNCHANGED <<machine_cost_per_hour, overhead_rate, profit_margin, pc, call, outcome,
                   web>>

\* lines 184-200: the thread returns the QuoteResult, the priced one or the
\* one of the except clause
Return(t) ==
    /\ threads[t].pc \in {"priced", "raised"}
    /\ threads' = [threads EXCEPT
                      ![t].pc = "returned",
                      ![t].result =
                          calculate_comprehensive_quote(threads[t].seen,
                              threads[t].args.analysis_data, threads[t].args.material_type,
                              threads[t].args.additional_options)]
    /\ UNCHANGED <<engine, pc, call, outcome, web>>

\* the caller takes the result and the thread serves the next request
Take(t) ==
    /\ threads[t].pc = "returned"
    /\ threads' = [threads EXCEPT ![t] = IdleThread]
    /\ UNCHANGED <<engine, pc, call, outcome, web>>

NextConcurrent ==
    \/ \E t \in Threads : Begin(t)
    \/ \E t \in Threads : ReadCatalog(t)
    \/ \E t \in Threads : ReadMachineRate(t)
    \/ \E t \in Threads : ReadRates(t)
    \/ \E t \in Threads : Return(t)
    \/ \E t \in Threads : Take(t)

SpecConcurrent == InitConcurrent /\ [][NextConcurrent]_vars

(***************************************************************************)
(* The web application: main.py and the route handlers of the blueprints.  *)
(* A response is its status code and the fields of its JSON body that the  *)
(* claims read; a text is the sequence of its parts.                       *)
(***************************************************************************)

\* the names each service module defines (its classes and functions)
ModuleNames(module) ==
    CASE module = "services.file_service" ->
             {"FileValidationConfig", "FileMetadata", "FileProcessingResult", "FileService"}
      [] module = "services.slicer_service" ->
             {"SlicingParameters", "SlicingResult", "SlicerService"}
      [] module = "services.pricing_service" -> {"QuoteResult", "PricingEngine"}
      [] module = "services.payment_service" ->
             {"PaymentStatus", "PayPalCredentials", "OrderCreationRequest", "PaymentResult",
              "PayPalService", "PayPalAPIError", "create_paypal_service"}
      [] module = "utils.validators" -> {"validate_quote_request"}
      [] module = "utils.helpers" -> {"create_error_response", "format_currency"}
      [] OTHER -> {}

\* main.py lines 7-10: from <module> import <name>, in order
MainImports ==
    << <<"services.file_service", "FileService">>,
       <<"services.file_service", "FileValidationConfig">>,
       <<"services.slicer_service", "SlicerService">>,
       <<"services.pricing_service", "PricingService">>,
       <<"services.payment_service", "PaymentService">> >>

\* the imports that raise ImportError: the module does not define the name
FailedImports(imports) ==
    {i \in DOMAIN imports : imports[i][2] \notin ModuleNames(imports[i][1])}

\* the keyword parameters the constructors of the service classes take
InitParameters(class) ==
    CASE class = "FileService" -> {"upload_directory", "validation_config"}
      [] class = "SlicerService" -> {}
      [] class = "PricingEngine" -> {}
      [] class = "PayPalService" -> {"credentials"}
      [] OTHER -> {}

\* calling class(**kwargs): the instance, or TypeError for a keyword the
\* constructor does not take
Construct(class, kwargs) ==
    IF kwargs \subseteq InitParameters(class) THEN Returns(class)
    ELSE Raise("TypeError", "__init__() got an unexpected keyword argument")

\* an app object and the attributes the handlers read from it; "unset" is
\* an attribute that was never assigned
App(file_service, slicer_service, pricing_engine, payment_service, made_by) ==
    [state |-> "serving", file_service |-> file_service, slicer_service |-> slicer_service,
     pricing_engine |-> pricing_engine, payment_service |-> payment_service,
     made_by |-> made_by]

\* the process whose import of main.py failed: there is no app
ImportFailed(name) ==
    [state |-> "import_failed", file_service |-> "unset", slicer_service |-> "unset",
     pricing_engine |-> "unset", payment_service |-> "unset", made_by |-> name]

\* main.py lines 77-117: the services are constructed in one try block; the
\* first constructor that raises leaves the later attributes unassigned
\* (the except clause logs and continues)
create_app(paypal_client_id, paypal_client_secret) ==
    LET fs == Construct("FileService", {"upload_directory", "validation_config"})
        ss == Construct("SlicerService", {"slicer_path"})
        pe == Construct("PricingEngine", {"currency"})
        pay == IF paypal_client_id # "" /\ paypal_client_secret # "" THEN "PayPalService"
               ELSE "None"
    IN  IF fs.raised THEN App("unset", "unset", "unset", "unset", "create_app")
        ELSE IF ss.raised THEN App(fs.value[1], "unset", "unset", "unset", "create_app")
        ELSE IF pe.raised
        THEN App(fs.value[1], ss.value[1], "unset", "unset", "create_app")
        ELSE App(fs.value[1], ss.value[1], pe.value[1], pay, "create_app")

\* main.py lines 1-16 and 20-139: importing the module, then create_app
StartMain(paypal_client_id, paypal_client_secret) ==
    IF FailedImports(MainImports) # {} THEN ImportFailed("create_app")
    ELSE create_app(paypal_client_id, paypal_client_secret)

\* hasattr(app, name) and app.name
Initialized(attribute) == attribute \notin {"unset", "None"}

NoResponse ==
    [status |-> 0, success |-> FALSE, message |-> << >>, details |-> << >>,
     volume |-> << >>, estimatedMaterial |-> << >>, total |-> << >>, file_id |-> << >>,
     health |-> << >>, transaction_id |-> << >>, payment_status |-> << >>,
     cleaned_count |-> << >>]

\* main.py lines 128-139: GET /health, a route of the app create_app made
health_check(app) ==
    IF app.state # "serving" \/ app.made_by # "create_app" THEN NoResponse
    ELSE [NoResponse EXCEPT
            !.status = 200,
            !.success = TRUE,
            !.health =
                << [status |-> "healthy",
                    file_service |-> IF Initialized(app.file_service) THEN "initialized"
                                     ELSE "not_initialized",
                    slicer_service |-> IF Initialized(app.slicer_service)
                                       THEN "initialized" ELSE "not_initialized",
                    pricing_engine |-> IF Initialized(app.pricing_engine)
                                       THEN "initialized" ELSE "not_initialized",
                    payment_service |->
                        IF Initialized(app.payment_service) THEN "initialized"
                        ELSE "not_initialized (PayPal credentials missing or other issue)"]
                >>]

\* what a handler did: its response, the paths it called the slicer with,
\* and how often it called the pricing engine and the payment gateway
Handled(response, slicer_calls, engine_calls, gateway_calls) ==
    [response |-> response, slicer_calls |-> slicer_calls, engine_calls |-> engine_calls,
     gateway_calls |-> gateway_calls]

\* routes/quote.py lines 8-20: the names bound in the module; line 2,
\* `import sys`, lies inside the docstring that opens on line 1
QuoteModuleGlobals ==
    {"Blueprint", "request", "jsonify", "current_app", "datetime", "timedelta", "uuid",
     "os", "json", "traceback", "SlicingParameters", "validate_quote_request", "quote_bp",
     "calculate_quote"}

\* SlicingResult (dataclass); volume_cm3 is the entry of analysis_data that
\* the engine does not read
SlicingResult(success, error_message, analysis_data, volume_cm3) ==
    [success |-> success, error_message |-> error_message,
     analysis_data |-> analysis_data, volume_cm3 |-> volume_cm3]

\* the analysis a stand-in slicer reports for each file
DoubleAnalysis(name) ==
    IF name = "a.stl"
    THEN [t |-> "dict", filament_used_grams |-> PyInt(10), print_time_minutes |-> PyInt(60),
          complexity_score |-> PyInt(50)]
    ELSE [t |-> "dict", filament_used_grams |-> PyInt(50), print_time_minutes |-> PyInt(120),
          complexity_score |-> PyInt(75)]

DoubleVolume(name) == IF name = "a.stl" THEN Int2R(8) ELSE Int2R(1000)

\* slicer_service.slice_stl_file(file_path, params): SlicerService of
\* slicer_service.py lines 36-78, or a stand-in set on the app
slice_stl_file(slicer_service, disk, file_path) ==
    CASE slicer_service = "SlicerService" ->
             IF file_path \notin disk
             THEN Returns(SlicingResult(FALSE, <<"STL file not found: ", file_path[2]>>,
                                        NotADict, RZero))
             ELSE Returns(SlicingResult(TRUE, << >>, SlicedAnalysis, Int2R(40)))
      [] slicer_service = "reporting" ->
             Returns(SlicingResult(TRUE, << >>, DoubleAnalysis(file_path[2]),
                                   DoubleVolume(file_path[2])))
      [] slicer_service = "failing" ->
             Returns(SlicingResult(FALSE, <<"mesh is not manifold">>, NotADict, RZero))
      [] slicer_service = "raising ValueError" -> Raise("ValueError", "bad mesh")
      [] OTHER -> Raise("RuntimeError", "slicer crashed")

\* lines 209-230: the two except clauses of calculate_quote
QuoteError(type, message, slicer_calls, engine_calls) ==
    Handled(IF type = "ValueError"
            THEN [NoResponse EXCEPT !.status = 400, !.message = message,
                                    !.details = message]
            ELSE [NoResponse EXCEPT !.status = 500,
                                    !.message = <<"Quote calculation failed">>,
                                    !.details = message],
            slicer_calls, engine_calls, 0)

\* lines 97-207: from the slicer call to the 200 response
QuoteAfterFlush(app, self, disk, file_path, material_type, quantity, rush_order) ==
    LET sliced == slice_stl_file(app.slicer_service, disk, file_path)
    IN
    IF sliced.raised
    THEN QuoteError(sliced.type, <<sliced.message>>, <<file_path>>, 0)
    ELSE
    LET slicing_result == sliced.value[1]
    IN
    IF ~slicing_result.success
    THEN QuoteError("ValueError", <<"STL slicing failed: ">> \o slicing_result.error_message,
                    <<file_path>>, 0)
    ELSE
    LET model_analysis == slicing_result.analysis_data
        additional_options ==
            [t |-> "dict", quantity |-> PyInt(quantity), rush_order |-> PyBool(rush_order)]
        quote_result ==
            calculate_comprehensive_quote(self, model_analysis, material_type,
                                          additional_options).value[1]
    IN
    IF model_analysis.print_time_minutes = Missing
    THEN QuoteError("KeyError", <<"'print_time_minutes'">>, <<file_path>>, 1)
    ELSE Handled([NoResponse EXCEPT
                     !.status = 200,
                     !.success = TRUE,
                     !.volume = <<slicing_result.volume_cm3>>,
                     !.estimatedMaterial =
                         <<R(DictGet(model_analysis.filament_used_grams, Num(RZero)))>>,
                     !.total = <<Round2(quote_result.total_cost)>>],
                 <<file_path>>, 1, 0)

\* routes/quote.py lines 20-230: POST /quote/calculate.  self is the
\* engine set on the app, disk the files that exist.
calculate_quote(app, self, disk, request_data) ==
    IF request_data.t # "dict"
    THEN QuoteError("TypeError", <<"argument of type 'NoneType' is not iterable">>, << >>, 0)
    ELSE IF request_data.uploadId = << >>
    THEN QuoteError("ValueError", <<"Missing required parameter: uploadId">>, << >>, 0)
    ELSE IF request_data.configuration = << >>
    THEN QuoteError("ValueError", <<"Missing required parameter: configuration">>, << >>, 0)
    ELSE
    LET configuration == request_data.configuration[1]
    IN
    IF configuration.material = << >>
    THEN QuoteError("ValueError", <<"Missing required parameter: configuration.material">>,
                    << >>, 0)
    ELSE
    LET upload_id == request_data.uploadId[1]
        material == configuration.material[1]
        material_type == IF material.name = << >> THEN Str(PLA) ELSE material.name[1]
        rush_order == configuration.printOptions # << >>
                          /\ configuration.printOptions[1].rushOrder
        quantity == IF configuration.quantity = << >> THEN 1 ELSE configuration.quantity[1]
        in_upload_folder == <<"uploads", upload_id>>
        fallback_path == <<"test_files", upload_id>>
    IN
    IF upload_id = ""
    THEN QuoteError("ValueError", <<"uploadId is missing or empty.">>, << >>, 0)
    ELSE IF in_upload_folder \notin disk /\ fallback_path \notin disk
    THEN QuoteError("ValueError",
                    <<"STL file not found for upload ID: ", upload_id, ". Path checked: ",
                      in_upload_folder[1], "/", upload_id>>, << >>, 0)
    ELSE
    LET file_path == IF in_upload_folder \in disk THEN in_upload_folder ELSE fallback_path
    IN
    IF "unset" \in {app.slicer_service, app.pricing_engine}
    THEN QuoteError("AttributeError", <<"'Flask' object has no attribute">>, << >>, 0)
    ELSE IF "sys" \notin QuoteModuleGlobals
    THEN QuoteError("NameError", <<"name 'sys' is not defined">>, << >>, 0)
    ELSE QuoteAfterFlush(app, self, disk, file_path, material_type, quantity, rush_order)

\* services/file_service.py lines 81-548: the methods of FileService
FileServiceMethods ==
    {"process_upload", "cleanup_expired_files", "get_file_info", "_initialize_directories",
     "_save_uploaded_file", "_validate_file", "_validate_stl_structure",
     "_perform_virus_scan", "_quarantine_file", "_generate_secure_filename",
     "_generate_metadata", "_calculate_file_hash", "_cleanup_file"}

\* file_service.py lines 375-399: the stored name is a timestamp, a hash and
\* the lower-cased extension; the original name is not part of it
generate_secure_filename(original_filename) == "20240101_120000_0a1b2c3d.stl"

\* file_service.py lines 240-290: _validate_file: the extension of the
\* original filename, the MIME type of the content, the size
validate_file(uploaded_file) ==
    /\ uploaded_file.filename # ""
    /\ uploaded_file.valid_stl
    /\ uploaded_file.size # "empty"

\* file_service.py lines 338-361: _perform_virus_scan reports no threat; a
\* scanner put in its place reports one
perform_virus_scan(scanner) ==
    IF scanner = "placeholder" THEN [threat_detected |-> FALSE]
    ELSE [threat_detected |-> TRUE]

\* FileProcessingResult, and the files on disk when process_upload returns
Processed(success, disk) == [success |-> success, disk |-> disk]

\* file_service.py lines 121-203: the upload is streamed to temp_path
\* (_save_uploaded_file, lines 205-238, removes the partial file and raises
\* when it grows over max_file_size), validated, scanned when the
\* configuration says so, and moved to final_path; a rejected file is
\* removed, or moved to the quarantine directory (lines 363-373).  After the
\* move _generate_metadata (lines 401-430) reads the stored file; when that
\* raises, the except clause of lines 188-200 removes temp_path only.
process_upload(config, scanner, storage, disk, uploaded_file) ==
    LET secure_filename == generate_secure_filename(uploaded_file.filename)
        temp_path == <<"tmp", secure_filename>>
        final_path == <<"uploads", secure_filename>>
        quarantine_path == <<"tmp/quarantine", secure_filename>>
        saved == disk \cup {temp_path}
    IN
    IF uploaded_file.size = "over max_file_size"
    THEN Processed(FALSE, saved \ {temp_path})
    ELSE IF ~validate_file(uploaded_file)
    THEN Processed(FALSE, saved \ {temp_path})
    ELSE IF config.virus_scan_enabled /\ perform_virus_scan(scanner).threat_detected
    THEN IF config.quarantine_suspicious
         THEN Processed(FALSE, (saved \ {temp_path}) \cup {quarantine_path})
         ELSE Processed(FALSE, saved \ {temp_path})
    ELSE IF storage = "read fails"
    THEN Processed(FALSE, ((saved \ {temp_path}) \cup {final_path}) \ {temp_path})
    ELSE Processed(TRUE, (saved \ {temp_path}) \cup {final_path})

\* routes/upload.py lines 117-123: the FileValidationConfig of the upload route
RouteConfig == [virus_scan_enabled |-> FALSE, quarantine_suspicious |-> TRUE]

\* routes/upload.py lines 47-53: create_error_response, the fallback the
\* module defines because utils.validators has no validate_upload_request
UploadError(message, status_code) ==
    [NoResponse EXCEPT !.status = status_code, !.message = <<message>>]

\* routes/upload.py lines 63-195: POST /upload/stl
upload_stl_file(app, uploaded) ==
    IF uploaded.field \notin {"file", "stl_file"}
    THEN UploadError("No STL file provided", 400)
    ELSE IF uploaded.filename = ""
    THEN UploadError("No file selected", 400)
    ELSE IF Construct("FileService", {"upload_directory", "validation_config"}).raised
    THEN UploadError("Internal server error", 500)
    ELSE IF "process_upload_sync" \notin FileServiceMethods
    THEN UploadError("Internal server error", 500)
    ELSE IF ~process_upload(RouteConfig, "placeholder", "readable", {}, uploaded).success
    THEN UploadError("File processing failed", 422)
    ELSE [NoResponse EXCEPT !.status = 201, !.success = TRUE,
                            !.message = <<"STL file uploaded successfully">>]

\* the files the upload handler has written when it returns
upload_stores(app, uploaded) ==
    IF upload_stl_file(app, uploaded).status = 201
    THEN process_upload(RouteConfig, "placeholder", "readable", {}, uploaded).disk
    ELSE {}

\* routes/payment.py lines 28-40: validate_payment_request
validate_payment_request(data) ==
    /\ data.quote_id # << >>
    /\ data.customer_email # << >>
    /\ data.customer_email[1] # "not-an-address"

\* routes/payment.py lines 48-57: create_error_response
PaymentError(message, status_code, gateway_calls) ==
    Handled([NoResponse EXCEPT !.status = status_code, !.message = <<message>>],
            << >>, 0, gateway_calls)

\* routes/payment.py lines 59-61: format_currency renders two decimals
format_currency(amount) == Round2(amount)

\* routes/payment.py lines 592-605: get_quote_by_id answers every id with
\* the same made-up quote
get_quote_by_id(quote_id) ==
    [quote_id |-> quote_id, total_cost |-> Frac(4599, 100), currency |-> "USD",
     expires_at |-> "2024-01-02T12:00:00Z", status |-> "active"]

\* routes/payment.py lines 608-614: is_quote_expired; clock tells whether
\* utcnow() lies after the expires_at of the quote
is_quote_expired(quote_data, clock) ==
    quote_data.expires_at # "2024-01-02T12:00:00Z" \/ clock = "after expires_at"

\* routes/payment.py lines 153-164: the order the handler builds
OrderCreationRequest(quote_id, amount, customer_email) ==
    [quote_id |-> quote_id, amount |-> amount, currency |-> "USD",
     customer_email |-> customer_email]

\* a handler that has handed order_request to PayPalService.create_order
Submitted(response, order_request) ==
    [response |-> response, slicer_calls |-> << >>, engine_calls |-> 0,
     gateway_calls |-> 1, order |-> order_request]

create_payment_order_ExpiryFirst(app, request_data, clock, gateway) ==
    IF request_data.t # "dict"
           \/ (request_data.quote_id = << >> /\ request_data.customer_email = << >>)
    THEN PaymentError("Invalid request format", 400, 0)
    ELSE IF clock = "after expires_at"
    THEN PaymentError("Quote expired", 410, 0)
    ELSE IF ~validate_payment_request(request_data)
    THEN PaymentError("Invalid payment parameters", 422, 0)
    ELSE IF app.payment_service # "PayPalService"
    THEN PaymentError("Order creation failed", 500, 0)
    ELSE IF gateway = "declines"
    THEN PaymentError("Payment order creation failed", 422, 1)
    ELSE Handled([NoResponse EXCEPT !.status = 201, !.success = TRUE], << >>, 0, 1)

\* routes/payment.py lines 75-253: POST /payment/create-order.  clock tells
\* whether now lies after the expires_at of the quote that get_quote_by_id
\* makes up; gateway is what PayPal answers when asked
create_payment_order(app, request_data, clock, gateway) ==
    IF request_data.t # "dict"
           \/ (request_data.quote_id = << >> /\ request_data.customer_email = << >>)
    THEN PaymentError("Invalid request format", 400, 0)
    ELSE IF ~validate_payment_request(request_data)
    THEN PaymentError("Invalid payment parameters", 422, 0)
    ELSE
    LET quote_id == request_data.quote_id[1]
        quote_data == get_quote_by_id(quote_id)
        order_request == OrderCreationRequest(quote_id, quote_data.total_cost,
                                              request_data.customer_email[1])
    IN
    IF is_quote_expired(quote_data, clock)
    THEN PaymentError("Quote expired", 410, 0)
    ELSE IF app.payment_service # "PayPalService"
    THEN PaymentError("Order creation failed", 500, 0)
    ELSE IF gateway = "declines"
    THEN Submitted([NoResponse EXCEPT !.status = 422,
                                      !.message = <<"Payment order creation failed">>],
                   order_request)
    ELSE Submitted([NoResponse EXCEPT !.status = 201, !.success = TRUE,
                                      !.total = <<format_currency(order_request.amount)>>],
                   order_request)

\* routes/payment.py lines 617-631: get_order_by_id answers every id with
\* the same made-up order
get_order_by_id(order_id) ==
    [order_id |-> order_id, quote_id |-> "mock-quote-id",
     customer_email |-> "customer@example.com", amount |-> Frac(4599, 100),
     status |-> "approved"]

\* services/payment_service.py lines 55-63 and 303-377: the PaymentResult of
\* PayPalService.capture_payment, by what the gateway answers
PaymentResult(order_id, gateway) ==
    IF gateway = "captures"
    THEN [success |-> TRUE, order_id |-> order_id, transaction_id |-> <<"T-1">>,
          amount |-> <<Frac(4599, 100)>>]
    ELSE [success |-> FALSE, order_id |-> order_id, transaction_id |-> << >>,
          amount |-> << >>]

\* routes/payment.py lines 277-358: the names capture_payment has bound when
\* line 357 formats the receipt link, and the names of the module it reads
CaptureNames ==
    {"request_data", "order_id", "order_data", "paypal_service", "capture_result",
     "updated_order", "fulfillment_result", "request", "jsonify", "current_app", "datetime",
     "logger", "create_error_response", "format_currency", "get_order_by_id",
     "trigger_order_fulfillment"}

\* routes/payment.py lines 256-377: POST /payment/capture-order
capture_payment(app, request_data, gateway) ==
    IF request_data.t # "dict" \/ request_data.order_id = << >>
    THEN PaymentError("Invalid request format", 400, 0)
    ELSE IF app.payment_service # "PayPalService"
    THEN PaymentError("Payment capture failed", 500, 0)
    ELSE
    LET order_id == request_data.order_id[1]
        order_data == get_order_by_id(order_id)
        capture_result == PaymentResult(order_id, gateway)
    IN
    IF ~capture_result.success
    THEN PaymentError("Payment capture failed", 422, 1)
    ELSE IF "transaction_id" \notin CaptureNames
    THEN PaymentError("Payment capture failed", 500, 1)
    ELSE Handled([NoResponse EXCEPT
                     !.status = 200, !.success = TRUE,
                     !.transaction_id = capture_result.transaction_id,
                     !.payment_status = <<"completed">>,
                     !.total = <<format_currency(capture_result.amount[1])>>],
                 << >>, 0, 1)

\* routes/payment.py lines 42-46: validate_webhook_signature of the route
validate_webhook_signature(payload, headers) == TRUE

\* services/payment_service.py lines 436-480: PayPalService.
\* verify_webhook_signature; headers tells which of the five PAYPAL-
\* headers the request carries
verify_webhook_signature(webhook_id, headers) ==
    IF webhook_id = "" THEN TRUE
    ELSE IF headers.present # "all" THEN FALSE
    ELSE TRUE

\* services/payment_service.py lines 499-559: the handler of an event type
EventHandler(event_type) ==
    CASE event_type = "CHECKOUT.ORDER.APPROVED" -> <<"_handle_order_approved">>
      [] event_type = "PAYMENT.CAPTURE.COMPLETED" -> <<"_handle_payment_completed">>
      [] event_type = "PAYMENT.CAPTURE.DENIED" -> <<"_handle_payment_denied">>
      [] event_type = "PAYMENT.CAPTURE.REFUNDED" -> <<"_handle_payment_refunded">>
      [] OTHER -> << >>

\* services/payment_service.py lines 482-526: handle_webhook_event
handle_webhook_event(webhook_id, payload, headers) ==
    IF ~verify_webhook_signature(webhook_id, headers)
    THEN [success |-> FALSE, error |-> <<"Invalid signature">>, handlers |-> << >>]
    ELSE [success |-> TRUE, error |-> << >>, handlers |-> EventHandler(payload.event_type)]

\* a webhook request that is answered, and the event handlers that ran
Webhooked(status_code, message, handlers) ==
    [response |-> [NoResponse EXCEPT !.status = status_code, !.success = status_code = 200,
                                     !.message = message],
     slicer_calls |-> << >>, engine_calls |-> 0, gateway_calls |-> 0,
     handlers |-> handlers]

\* routes/payment.py lines 380-429: POST /payment/webhook
handle_paypal_webhook(app, webhook_id, payload, headers) ==
    IF ~validate_webhook_signature(payload, headers)
    THEN Webhooked(401, <<"Invalid signature">>, << >>)
    ELSE IF payload.t # "json"
    THEN Webhooked(400, <<"Invalid JSON">>, << >>)
    ELSE IF app.payment_service # "PayPalService"
    THEN Webhooked(500, <<"Internal server error">>, << >>)
    ELSE
    LET result == handle_webhook_event(webhook_id, payload, headers)
    IN  IF result.success THEN Webhooked(200, << >>, result.handlers)
        ELSE Webhooked(400, result.error, << >>)

\* file_service.py line 488, file_path.stat().st_mtime: the hours since
\* the file was written
HoursOld(path) ==
    CASE path[2] \in {"a.stl", "t_old"} -> 30
      [] path[2] = "t_day" -> 25
      [] OTHER -> 2

\* file_service.py lines 468-518: cleanup_expired_files walks the files of
\* temp_directory.  In hours relative to utcnow(): cutoff_time is
\* -max_age_hours, and file_mtime, which fromtimestamp gives in local time,
\* is utc_offset - HoursOld
cleanup_expired_files(disk, max_age_hours, utc_offset) ==
    LET expired == {file_path \in disk :
                       /\ file_path[1] = "tmp"
                       /\ utc_offset - HoursOld(file_path) < 0 - max_age_hours}
    IN  [success |-> TRUE, cleaned_count |-> Cardinality(expired), error_count |-> 0,
         disk |-> disk \ expired]

\* routes/upload.py lines 373-432: POST /upload/cleanup; the response and
\* the files that are left
cleanup_uploads(disk, request_data, utc_offset) ==
    LET max_age_hours ==
            IF request_data.force_cleanup THEN 0
            ELSE IF request_data.max_age_hours = << >> THEN 24
            ELSE request_data.max_age_hours[1]
        cleanup_result == cleanup_expired_files(disk, max_age_hours, utc_offset)
    IN  [response |-> [NoResponse EXCEPT !.status = 200,
                                         !.success = cleanup_result.success,
                                         !.cleaned_count = <<cleanup_result.cleaned_count>>],
         slicer_calls |-> << >>, engine_calls |-> 0, gateway_calls |-> 0,
         disk |-> cleanup_result.disk]

(***************************************************************************)
(* The requests the model sends, and the processes that answer them.       *)
(***************************************************************************)
\* the environment variables PAYPAL_CLIENT_ID and PAYPAL_CLIENT_SECRET
Environments ==
    { [PAYPAL_CLIENT_ID |-> "", PAYPAL_CLIENT_SECRET |-> ""],
      [PAYPAL_CLIENT_ID |-> "id", PAYPAL_CLIENT_SECRET |-> "secret"] }

\* the upload folder and the test_files folder, as the requests find them
Disks ==
    { {}, {<<"uploads", "a.stl">>}, {<<"uploads", "a.stl">>, <<"uploads", "b.stl">>},
      {<<"test_files", "b.stl">>},
      {<<"uploads", "a.stl">>, <<"uploads", "b.stl">>, <<"tmp", "t_old">>, <<"tmp", "t_new">>},
      {<<"tmp", "t_day">>, <<"tmp", "t_new">>} }

Off ==
    [state |-> "off", file_service |-> "unset", slicer_service |-> "unset",
     pricing_engine |-> "unset", payment_service |-> "unset", made_by |-> ""]

SlicerServices == {"SlicerService", "reporting", "failing", "raising ValueError",
                   "raising RuntimeError"}

PaymentServices == {"None", "unset", "PayPalService"}

MaterialNames == { << >>, <<Str(PLA)>>, <<NoneMaterial>> }

Configurations ==
    [material : {<<[name |-> n]>> : n \in MaterialNames}, quantity : {<< >>, <<10>>, <<0>>, <<-1>>},
     printOptions : {<< >>, <<[rushOrder |-> TRUE]>>}]
    \cup {[material |-> << >>, quantity |-> << >>, printOptions |-> << >>]}

\* the JSON bodies of the quote requests; one is no JSON object
QuoteBodies ==
    [t : {"dict"}, uploadId : {<< >>, <<"">>, <<"a.stl">>, <<"b.stl">>, <<"zz.stl">>},
     configuration : {<< >>} \cup {<<c>> : c \in Configurations}]
    \cup {[t |-> "NoneType", uploadId |-> << >>, configuration |-> << >>]}

\* the multipart uploads: the field name, the filename, and whether the
\* content is a well-formed STL
Uploads ==
    [field : {"file", "stl_file", "document"}, filename : {"", "cube.stl"},
     valid_stl : BOOLEAN, size : {"empty", "fits", "over max_file_size"}]

PaymentBodies ==
    [t : {"dict"}, quote_id : {<< >>, <<"q1">>},
     customer_email : {<< >>, <<"a@b.c">>, <<"not-an-address">>}]
    \cup {[t |-> "NoneType", quote_id |-> << >>, customer_email |-> << >>]}

CaptureBodies ==
    [t : {"dict"}, order_id : {<< >>, <<"O-1">>}]
    \cup {[t |-> "NoneType", order_id |-> << >>]}

\* the webhook requests: whether the five PAYPAL- headers are there,
\* whether the signature is the one PayPal made for the payload, and the body
WebhookHeaders ==
    { [present |-> "all", signature |-> "genuine"],
      [present |-> "all", signature |-> "forged"],
      [present |-> "some", signature |-> "none"] }

WebhookPayloads ==
    [t : {"json"}, event_type : {"CHECKOUT.ORDER.APPROVED", "PAYMENT.CAPTURE.COMPLETED",
                                 "BILLING.PLAN.CREATED"}]
    \cup {[t |-> "text", event_type |-> ""]}

\* PAYPAL_WEBHOOK_ID of the credentials
WebhookIds == {"", "WH-1"}

\* the JSON bodies of the cleanup requests; no body reads as {}
CleanupBodies == [max_age_hours : {<< >>, <<1>>, <<24>>, <<48>>}, force_cleanup : BOOLEAN]

\* the hours local time is ahead of UTC in the process
UtcOffsets == {0, 3}

\* FileValidationConfig: virus_scan_enabled and quarantine_suspicious
ValidationConfigs == [virus_scan_enabled : BOOLEAN, quarantine_suspicious : BOOLEAN]

Scanners == {"placeholder", "detecting"}

\* whether the stored file can be read back when its metadata is generated
Storages == {"readable", "read fails"}

InitApp ==
    /\ material_catalog = InitialCatalog
    /\ machine_cost_per_hour = Frac(500, 100)
    /\ overhead_rate = Frac(10, 100)
    /\ profit_margin = Frac(20, 100)
    /\ pc = "idle"
    /\ call = NoCall
    /\ outcome = NoOutcome
    /\ threads = NoThreads
    /\ server \in [env : Environments, app : {Off}]
    /\ files \in Disks
    /\ exchange = NoExchange
    /\ paypal = NoPayPal

\* main.py is run: its imports, then create_app
StartServer ==
    /\ server.app.state = "off"
    /\ server' = [server EXCEPT !.app = StartMain(server.env.PAYPAL_CLIENT_ID,
                                                  server.env.PAYPAL_CLIENT_SECRET)]
    /\ UNCHANGED <<engine, pc, call, outcome, threads, files, exchange, paypal>>

\* the blueprints are registered on an app that carries the attributes the
\* handlers read: current_app.slicer_service, .pricing_engine and
\* .payment_service
Mount ==
    /\ server.app.state = "off"
    /\ \E slicer_service \in SlicerServices, payment_service \in PaymentServices :
          server' = [server EXCEPT !.app = App("FileService", slicer_service,
                                               "PricingEngine", payment_service,
                                               "blueprints")]
    /\ UNCHANGED <<engine, pc, call, outcome, threads, files, exchange, paypal>>

QuoteRequest ==
    /\ server.app.state = "serving"
    /\ exchange = NoExchange
    /\ \E request_data \in QuoteBodies :
          exchange' = [route |-> "quote", request |-> request_data,
                       handled |-> calculate_quote(server.app, Self, files, request_data)]
    /\ UNCHANGED <<engine, pc, call, outcome, threads, server, files, paypal>>

UploadRequest ==
    /\ server.app.state = "serving"
    /\ exchange = NoExchange
    /\ \E uploaded \in Uploads :
          /\ exchange' = [route |-> "upload", request |-> uploaded,
                          handled |-> Handled(upload_stl_file(server.app, uploaded),
                                              << >>, 0, 0)]
          /\ files' = files \cup upload_stores(server.app, uploaded)
    /\ UNCHANGED <<engine, pc, call, outcome, threads, server, paypal>>

CreateOrderRequest ==
    /\ server.app.state = "serving"
    /\ exchange = NoExchange
    /\ \E request_data \in PaymentBodies,
          clock \in {"before expires_at", "after expires_at"},
          gateway \in {"creates", "declines"} :
          exchange' = [route |-> "create-order", request |-> request_data,
                       clock |-> clock, gateway |-> gateway,
                       handled |-> create_payment_order(server.app, request_data, clock,
                                                        gateway)]
    /\ UNCHANGED <<engine, pc, call, outcome, threads, server, files, paypal>>

CaptureOrderRequest ==
    /\ server.app.state = "serving"
    /\ exchange = NoExchange
    /\ \E request_data \in CaptureBodies, gateway \in {"captures", "declines"} :
          exchange' = [route |-> "capture-order", request |-> request_data,
                       gateway |-> gateway,
                       handled |-> capture_payment(server.app, request_data, gateway)]
    /\ UNCHANGED <<engine, pc, call, outcome, threads, server, files, paypal>>

WebhookRequest ==
    /\ server.app.state = "serving"
    /\ exchange = NoExchange
    /\ \E webhook_id \in WebhookIds, payload \in WebhookPayloads,
          headers \in WebhookHeaders :
          exchange' = [route |-> "webhook", request |-> payload, headers |-> headers,
                       webhook_id |-> webhook_id,
                       handled |-> handle_paypal_webhook(server.app, webhook_id, payload,
                                                         headers)]
    /\ UNCHANGED <<engine, pc, call, outcome, threads, server, files, paypal>>

CleanupRequest ==
    /\ server.app.state = "serving"
    /\ exchange = NoExchange
    /\ \E request_data \in CleanupBodies, utc_offset \in UtcOffsets :
          LET handled == cleanup_uploads(files, request_data, utc_offset)
          IN  /\ exchange' = [route |-> "cleanup", request |-> request_data,
                              utc_offset |-> utc_offset, before |-> files,
                              handled |-> handled]
              /\ files' = handled.disk
    /\ UNCHANGED <<engine, pc, call, outcome, threads, server, paypal>>

\* a caller of FileService.process_upload (the coroutine that the upload
\* route does not reach)
ProcessUpload ==
    /\ server.app.state = "serving"
    /\ exchange = NoExchange
    /\ \E uploaded_file \in {uploaded \in Uploads : uploaded.field = "file"},
          config \in ValidationConfigs, scanner \in Scanners, storage \in Storages :
          LET result == process_upload(config, scanner, storage, files, uploaded_file)
          IN  /\ exchange' = [route |-> "process_upload", request |-> uploaded_file,
                              config |-> config, scanner |-> scanner,
                              storage |-> storage, before |-> files,
                              handled |-> Handled([NoResponse EXCEPT
                                                      !.success = result.success],
                                                  << >>, 0, 0)]
              /\ files' = result.disk
    /\ UNCHANGED <<engine, pc, call, outcome, threads, server, paypal>>

\* the response has been sent
Done ==
    /\ exchange # NoExchange
    /\ exchange' = NoExchange
    /\ UNCHANGED <<engine, pc, call, outcome, threads, server, files, paypal>>

NextApp ==
    \/ StartServer
    \/ Mount
    \/ QuoteRequest
    \/ UploadRequest
    \/ CreateOrderRequest
    \/ CaptureOrderRequest
    \/ WebhookRequest
    \/ CleanupRequest
    \/ ProcessUpload
    \/ Done

SpecApp == InitApp /\ [][NextApp]_vars

(***************************************************************************)
(* The one PayPalService of a process, entered by the payment requests     *)
(* that the threads of the worker answer.  The clock counts minutes.       *)
(***************************************************************************)
MaxClock == 6

MaxSessions == 3

\* gunicorn.conf.py line 6: threads = 2
RequestThreads == 2

Tasks == 1..RequestThreads

TokenIsCached_NoMargin(access_token, token_expires_at, now) ==
    /\ access_token # << >>
    /\ token_expires_at # << >>
    /\ now < token_expires_at[1]

\* payment_service.py lines 150-152: the cached token is good while
\* utcnow() < token_expires_at - timedelta(minutes=5)
TokenIsCached(access_token, token_expires_at, now) ==
    /\ access_token # << >>
    /\ token_expires_at # << >>
    /\ now < token_expires_at[1] - 5

\* what the gateway answers to POST /v1/oauth2/token: status 200 with a
\* token and, possibly, expires_in (seconds); another status; status 0 is
\* the aiohttp.ClientError of a request that did not get through
TokenAnswers(access_token) ==
    { [status |-> 200, access_token |-> access_token, expires_in |-> << >>],
      [status |-> 200, access_token |-> access_token, expires_in |-> <<600>>],
      [status |-> 401, access_token |-> 0, expires_in |-> << >>],
      [status |-> 0, access_token |-> 0, expires_in |-> << >>] }

\* one call of _get_access_token: whether it posted, what it raised or
\* returned, and the cache before and after it
TokenCall(attempted, answered, raised, returned, self, answer, access_token, token_expires_at) ==
    [attempted |-> attempted, answered |-> answered, raised |-> raised,
     returned |-> returned, now |-> self.now, answer |-> answer,
     before_token |-> self.access_token, before_expiry |-> self.token_expires_at,
     access_token |-> access_token, token_expires_at |-> token_expires_at]

NoTokenCall == [attempted |-> FALSE, answered |-> FALSE, raised |-> "not called"]

\* self.session.post(...) on a session: a closed aiohttp session raises
\* RuntimeError('Session is closed')
SessionOpen(self) == self.sessions[self.session] = 0

\* payment_service.py lines 136-192: _get_access_token
get_access_token(self, answer) ==
    IF TokenIsCached(self.access_token, self.token_expires_at, self.now)
    THEN TokenCall(FALSE, FALSE, "", self.access_token, self, answer,
                   self.access_token, self.token_expires_at)
    ELSE IF ~SessionOpen(self)
    THEN TokenCall(TRUE, FALSE, "RuntimeError", << >>, self, answer,
                   self.access_token, self.token_expires_at)
    ELSE IF answer.status # 200
    THEN TokenCall(TRUE, TRUE, "PayPalAPIError", << >>, self, answer,
                   self.access_token, self.token_expires_at)
    ELSE
    LET expires_in == IF answer.expires_in = << >> THEN 3600 ELSE answer.expires_in[1]
    IN  TokenCall(TRUE, TRUE, "", <<answer.access_token>>, self, answer,
                  <<answer.access_token>>, <<self.now + expires_in \div 60>>)

\* a request thread: where it is in `async with current_app.payment_service`
\* and whether one of its gateway calls found the session closed
IdleTask == [pc |-> "idle", token_call |-> NoTokenCall, on_closed |-> FALSE]

\* PayPalService.__init__, lines 87-106
InitPayPal ==
    /\ material_catalog = InitialCatalog
    /\ machine_cost_per_hour = Frac(500, 100)
    /\ overhead_rate = Frac(10, 100)
    /\ profit_margin = Frac(20, 100)
    /\ pc = "idle"
    /\ call = NoCall
    /\ outcome = NoOutcome
    /\ threads = NoThreads
    /\ server = NoServer
    /\ files = {}
    /\ exchange = NoExchange
    /\ paypal = [state |-> "service", access_token |-> << >>, token_expires_at |-> << >>,
                 session |-> 0, sessions |-> << >>, now |-> 0, issued |-> 0,
                 tasks |-> [t \in Tasks |-> IdleTask]]

\* lines 120-129: __aenter__ opens a session and assigns it to self.session
Enter(t) ==
    /\ paypal.tasks[t].pc = "idle"
    /\ Len(paypal.sessions) < MaxSessions
    /\ paypal' = [paypal EXCEPT !.sessions = Append(@, 0),
                                !.session = Len(paypal.sessions) + 1,
                                !.tasks[t] = [IdleTask EXCEPT !.pc = "entered"]]
    /\ UNCHANGED <<engine, pc, call, outcome, threads, server, files, exchange>>

\* lines 206-207 and 316-317: create_order and capture_payment begin with
\* _get_access_token; what it raises they turn into a failed PaymentResult
GetAccessToken(t) ==
    /\ paypal.tasks[t].pc = "entered"
    /\ \E answer \in TokenAnswers(paypal.issued + 1) :
          LET token_call == get_access_token(paypal, answer)
          IN  paypal' = [paypal EXCEPT
                            !.access_token = token_call.access_token,
                            !.token_expires_at = token_call.token_expires_at,
                            !.issued = IF token_call.raised = "" /\ token_call.attempted
                                       THEN @ + 1 ELSE @,
                            !.tasks[t].pc = IF token_call.raised = "" THEN "authorized"
                                            ELSE "failed",
                            !.tasks[t].token_call = token_call,
                            !.tasks[t].on_closed = token_call.attempted /\ ~token_call.answered]
    /\ UNCHANGED <<engine, pc, call, outcome, threads, server, files, exchange>>

\* lines 245-249 and 326-329: the order is posted on self.session
PostOrder(t) ==
    /\ paypal.tasks[t].pc = "authorized"
    /\ paypal' = [paypal EXCEPT !.tasks[t].pc = "posted",
                                !.tasks[t].on_closed = @ \/ ~SessionOpen(paypal)]
    /\ UNCHANGED <<engine, pc, call, outcome, threads, server, files, exchange>>

\* lines 131-134: __aexit__ closes self.session
Exit(t) ==
    /\ paypal.tasks[t].pc \in {"failed", "posted"}
    /\ paypal' = [paypal EXCEPT !.sessions[paypal.session] = @ + 1,
                                !.tasks[t] = IdleTask]
    /\ UNCHANGED <<engine, pc, call, outcome, threads, server, files, exchange>>

\* a minute passes
Tick ==
    /\ paypal.now < MaxClock
    /\ paypal' = [paypal EXCEPT !.now = @ + 1]
    /\ UNCHANGED <<engine, pc, call, outcome, threads, server, files, exchange>>

NextPayPal ==
    \/ \E t \in Tasks : Enter(t)
    \/ \E t \in Tasks : GetAccessToken(t)
    \/ \E t \in Tasks : PostOrder(t)
    \/ \E t \in Tasks : Exit(t)
    \/ Tick

SpecPayPal == InitPayPal /\ [][NextPayPal]_vars

(***************************************************************************)
(* What the claims read off a state.                                       *)
(***************************************************************************)
Quoted == pc = "quoted"

Returned == Quoted /\ ~outcome.raised

\* the QuoteResult of the last call
Quote == outcome.value[1]

Succeeded == Returned /\ Quote.success

CallOptions ==
    IF call.additional_options.t = "NoneType" THEN EmptyOptions ELSE call.additional_options

\* the quantity and rush flag of the last call, with the documented defaults
CallQuantity == R(DictGet(CallOptions.quantity, PyInt(1)))

CallRush == Truthy(DictGet(CallOptions.rush_order, PyBool(FALSE)))

CallGrams == R(DictGet(call.analysis_data.filament_used_grams, PyInt(50)))

CallMinutes == R(DictGet(call.analysis_data.print_time_minutes, PyInt(120)))

CallScore == R(DictGet(call.analysis_data.complexity_score, PyInt(50)))

\* the lines of the breakdown of a successful quote
Breakdown == Quote.breakdown_details[1]

Categories == [i \in DOMAIN Breakdown |-> Breakdown[i].category]

LinesOf(category) == {i \in DOMAIN Breakdown : Breakdown[i].category = category}

Half == Frac(1, 2)

\* the step function of the quantity as the specification states it
StepDiscount(q) ==
    IF q.n <= 4 * q.d THEN RZero
    ELSE IF q.n <= 9 * q.d THEN Frac(1, 20)
    ELSE Frac(1, 10)

BaseCost == RAdd(RAdd(Quote.material_cost, Quote.time_cost), Quote.complexity_adjustment)

ClaimedRushSurcharge ==
    IF CallRush THEN RMul(RMul(Quote.time_cost, CallQuantity), Half) ELSE RZero

(***************************************************************************)
(* C1: in every successful quote, subtotal = base_cost * quantity *        *)
(* (1 - quantity_discount), overhead_cost = subtotal * 0.10,               *)
(* profit_margin = (subtotal + overhead_cost + rush_surcharge) * 0.20 and  *)
(* total_cost = subtotal + overhead_cost + rush_surcharge + profit_margin, *)
(* with base_cost = material_cost + time_cost + complexity_adjustment and  *)
(* rush_surcharge = time_cost * quantity * 0.5 for a rush order, else 0.   *)
(***************************************************************************)
C1_QuoteTotals ==
    Succeeded =>
        /\ Quote.subtotal =
               RMul(RMul(BaseCost, CallQuantity), RSub(Int2R(1), StepDiscount(CallQuantity)))
        /\ Quote.overhead_cost = RMul(Quote.subtotal, Frac(10, 100))
        /\ Quote.profit_margin =
               RMul(RAdd(RAdd(Quote.subtotal, Quote.overhead_cost), ClaimedRushSurcharge),
                    Frac(20, 100))
        /\ Quote.total_cost =
               RAdd(RAdd(RAdd(Quote.subtotal, Quote.overhead_cost), ClaimedRushSurcharge),
                    Quote.profit_margin)

\* a successful rush quote for ten units with a complexity adjustment
C1_Witness ==
    /\ Succeeded
    /\ CallRush
    /\ CallQuantity = Int2R(10)
    /\ RLt(RZero, Quote.time_cost)
    /\ RLt(RZero, Quote.material_cost)
    /\ Quote.complexity_adjustment # RZero

(***************************************************************************)
(* C2: the quantity discount applied to a successful quote is a step       *)
(* function of the quantity: 0 up to 4, 5% from 5 to 9, 10% from 10 on.    *)
(* It shows in the subtotal and in the Discounts line, which names the     *)
(* percentage and takes base_cost * quantity * discount off.               *)
(***************************************************************************)
C2_DiscountSteps ==
    Succeeded =>
        LET q == CallQuantity
            gross == RMul(BaseCost, q)
            taken == RSub(gross, Quote.subtotal)
            percent == IF q.n <= 4 THEN 0 ELSE IF q.n <= 9 THEN 5 ELSE 10
        IN  /\ taken = RMul(gross, Frac(percent, 100))
            /\ (percent = 0) <=> (LinesOf("Discounts") = {})
            /\ \A i \in LinesOf("Discounts") :
                   /\ Breakdown[i].description.v = Int2R(percent)
                   /\ Breakdown[i].total = RNeg(taken)

\* quotes at both sides of both steps, each with a price the discount shows in
C2_Witness ==
    /\ Succeeded
    /\ CallQuantity \in {Int2R(4), Int2R(5), Int2R(9), Int2R(10)}
    /\ RLt(RZero, BaseCost)

(***************************************************************************)
(* C3: the rush surcharge is time_cost * quantity * 0.5 for a rush order   *)
(* and 0 otherwise; the quantity discount and the overhead do not touch    *)
(* it: the same call without the rush flag has the same subtotal and       *)
(* overhead_cost, and a total_cost lower by time_cost * quantity * 0.5 *   *)
(* (1 + 0.20), whatever the material cost.                                 *)
(***************************************************************************)
WithRush(options, flag) ==
    [t |-> "dict", quantity |-> options.quantity, rush_order |-> PyBool(flag)]

C3_RushSurcharge ==
    Succeeded =>
        LET surcharge == RMul(RMul(Quote.time_cost, CallQuantity), Half)
            plain == calculate_comprehensive_quote(Self, call.analysis_data,
                         call.material_type, WithRush(CallOptions, FALSE)).value[1]
            rushed == calculate_comprehensive_quote(Self, call.analysis_data,
                          call.material_type, WithRush(CallOptions, TRUE)).value[1]
        IN  /\ CallRush =>
                   /\ \E i \in LinesOf("Surcharges") : Breakdown[i].total = surcharge
                   /\ Quote.total_cost =
                          RAdd(plain.total_cost, RMul(surcharge, Frac(120, 100)))
                   /\ Quote.subtotal = plain.subtotal
                   /\ Quote.overhead_cost = plain.overhead_cost
            /\ ~CallRush =>
                   /\ LinesOf("Surcharges") = {}
                   /\ Quote.total_cost =
                          RMul(RAdd(Quote.subtotal, Quote.overhead_cost), Frac(120, 100))
                   /\ rushed.total_cost =
                          RAdd(Quote.total_cost, RMul(surcharge, Frac(120, 100)))

\* a discounted rush quote with both a material cost and a time cost
C3_Witness ==
    /\ Succeeded
    /\ CallRush
    /\ CallQuantity = Int2R(5)
    /\ RLt(RZero, Quote.time_cost)
    /\ RLt(RZero, Quote.material_cost)

(***************************************************************************)
(* C4: complexity_adjustment = time_cost * (complexity_score / 50 - 1) *   *)
(* 0.2, with time_cost = (print_time_minutes / 60) * 5.00 * the resolved   *)
(* material's machine_cost_multiplier and material_cost = filament grams * *)
(* the resolved material's cost_per_gram; the adjustment depends on        *)
(* neither the filament mass nor the quantity.                             *)
(***************************************************************************)
ResolvedMaterial ==
    CatalogGet(material_catalog,
               normalize_material_type(material_catalog, call.material_type.s))

OtherGrams == [call.analysis_data EXCEPT !.filament_used_grams = PyInt(25)]

OtherQuantity == [CallOptions EXCEPT !.quantity = PyInt(3)]

C4_Formulas ==
    /\ Quote.time_cost =
           RMul(RMul(RDiv(CallMinutes, Int2R(60)), Int2R(5)),
                ResolvedMaterial.machine_cost_multiplier)
    /\ Quote.material_cost = RMul(CallGrams, ResolvedMaterial.cost_per_gram)
    /\ Quote.complexity_adjustment =
           RMul(RMul(Quote.time_cost, RSub(RDiv(CallScore, Int2R(50)), Int2R(1))),
                Frac(2, 10))
    /\ Quote.complexity_adjustment =
           calculate_comprehensive_quote(Self, OtherGrams, call.material_type,
                                         OtherQuantity).value[1].complexity_adjustment

\* C4 as stated: the adjustment is 0 at score 50, negative for every score
\* below 50 and positive for every score above 50
C4_SignForEveryInput ==
    Succeeded =>
        /\ C4_Formulas
        /\ CallScore = Int2R(50) => Quote.complexity_adjustment = RZero
        /\ RLt(CallScore, Int2R(50)) => RLt(Quote.complexity_adjustment, RZero)
        /\ RLt(Int2R(50), CallScore) => RLt(RZero, Quote.complexity_adjustment)

\* C4 as amended: the sign follows the score whenever the time cost is
\* positive; with a time cost of 0 the adjustment is 0 for every score
C4_ComplexityAdjustment ==
    Succeeded =>
        /\ C4_Formulas
        /\ CallScore = Int2R(50) => Quote.complexity_adjustment = RZero
        /\ Quote.time_cost = RZero => Quote.complexity_adjustment = RZero
        /\ RLt(RZero, Quote.time_cost) =>
               /\ RLt(CallScore, Int2R(50)) => RLt(Quote.complexity_adjustment, RZero)
               /\ RLt(Int2R(50), CallScore) => RLt(RZero, Quote.complexity_adjustment)

\* a quote with a discount for a low score, on a material with its own rates
C4_Witness ==
    /\ Succeeded
    /\ RLt(Quote.complexity_adjustment, RZero)
    /\ RLt(RZero, Quote.material_cost)
    /\ ResolvedMaterial.key = PETG
    /\ CallQuantity = Int2R(10)

(***************************************************************************)
(* The end-to-end scenario: 50 g of filament, 120 minutes, complexity 65,  *)
(* material PLA, one unit, no rush.                                        *)
(***************************************************************************)
ScenarioCall ==
    /\ Quoted
    /\ call.analysis_data = SlicedAnalysis
    /\ call.material_type = Str(PLA)
    /\ CallOptions.t = "dict"
    /\ CallOptions.quantity \in {PyInt(1), Missing}
    /\ CallOptions.rush_order \in {PyBool(FALSE), Missing}

(***************************************************************************)
(* C5: the scenario returns material_cost 2.50, time_cost 10.00,           *)
(* complexity_adjustment 0.60, subtotal 13.10, overhead_cost 1.31,         *)
(* profit_margin 2.882 and total_cost 17.292.                              *)
(***************************************************************************)
C5_Scenario ==
    ScenarioCall =>
        /\ Succeeded
        /\ Quote.material_cost = Frac(250, 100)
        /\ Quote.time_cost = Frac(1000, 100)
        /\ Quote.complexity_adjustment = Frac(60, 100)
        /\ Quote.subtotal = Frac(1310, 100)
        /\ Quote.overhead_cost = Frac(131, 100)
        /\ Quote.profit_margin = Frac(2882, 1000)
        /\ Quote.total_cost = Frac(17292, 1000)
        /\ Round2(Quote.total_cost) = Frac(1729, 100)

\* the scenario with the quantity and the rush flag given explicitly
C5_Witness ==
    /\ ScenarioCall
    /\ call.additional_options.quantity = PyInt(1)
    /\ call.additional_options.rush_order = PyBool(FALSE)
    /\ Succeeded

(***************************************************************************)
(* C6: the amounts of the scenario's quote rounded to 2 decimals.          *)
(***************************************************************************)
C6_RoundedExceptMarginAndTotal ==
    /\ Succeeded
    /\ Round2(Quote.material_cost) = Frac(250, 100)
    /\ Round2(Quote.time_cost) = Frac(1000, 100)
    /\ Round2(Quote.complexity_adjustment) = Frac(60, 100)
    /\ Round2(Quote.overhead_cost) = Frac(131, 100)
    /\ Round2(Quote.subtotal) = Frac(1310, 100)

\* C6 as stated: profit_margin 2.68 and total_cost 16.09
C6_ExampleAsStated ==
    ScenarioCall =>
        /\ C6_RoundedExceptMarginAndTotal
        /\ Round2(Quote.profit_margin) = Frac(268, 100)
        /\ Round2(Quote.total_cost) = Frac(1609, 100)

\* C6 as amended: profit_margin 2.88 and total_cost 17.29, the other
\* amounts as stated
C6_ExampleOutput ==
    ScenarioCall =>
        /\ C6_RoundedExceptMarginAndTotal
        /\ Round2(Quote.profit_margin) = Frac(288, 100)
        /\ Round2(Quote.total_cost) = Frac(1729, 100)

\* the scenario as the example request gives it, with the defaults left out
C6_Witness ==
    /\ ScenarioCall
    /\ Succeeded
    /\ Len(Breakdown) = 3
    /\ Quote.total_cost # Round2(Quote.total_cost)

(***************************************************************************)
(* C7: _normalize_material_type uppercases its input; an input that is a   *)
(* catalog key once uppercased resolves to that key; otherwise an input    *)
(* that contains catalog keys resolves to the first of PLA, ABS, PETG, TPU *)
(* it contains, wherever the key occurs and however many keys occur.       *)
(***************************************************************************)
Normalized == pc = "normalized"

NormalizedLabel == call.material_type.s

NormalizedKey == outcome.value[1]

KeyOrder == <<PLA, ABS, PETG, TPU>>

\* the positions in KeyOrder of the keys that occur in the string
KeysIn(s) == {i \in DOMAIN KeyOrder : Contains(s, KeyOrder[i])}

C7_MaterialResolution ==
    Normalized =>
        LET upper == Upper(NormalizedLabel)
        IN  /\ (\E i \in DOMAIN KeyOrder : upper = KeyOrder[i]) => NormalizedKey = upper
            /\ KeysIn(upper) # {} =>
                   \E i \in KeysIn(upper) :
                       /\ NormalizedKey = KeyOrder[i]
                       /\ \A j \in KeysIn(upper) : i <= j
            /\ NormalizedLabel = PLABasic => NormalizedKey = PLA
            /\ NormalizedLabel = AbsPlaBlend => NormalizedKey = PLA
            /\ NormalizedLabel = TpuPetg => NormalizedKey = PETG

\* a lower-case label that holds two keys, the later one of the catalog first
C7_Witness ==
    /\ Normalized
    /\ NormalizedLabel = AbsPlaBlend
    /\ NormalizedKey = PLA

(***************************************************************************)
(* C8: a material label that contains no catalog key is priced as PLA:     *)
(* the call returns what it returns for "PLA" with the same analysis and   *)
(* options (success, error message and every amount), a success whenever   *)
(* the analysis and the options are usable; and resolution always returns  *)
(* a key of the catalog.                                                   *)
(***************************************************************************)
UnknownLabel ==
    /\ call.material_type.t = "str"
    /\ KeysIn(Upper(call.material_type.s)) = {}

Amounts(quote) ==
    <<quote.success, quote.error_message, quote.material_cost, quote.time_cost,
      quote.complexity_adjustment, quote.overhead_cost, quote.profit_margin, quote.subtotal,
      quote.total_cost>>

UsableInput ==
    /\ call.analysis_data.t = "dict"
    /\ IsNumber(DictGet(call.analysis_data.filament_used_grams, PyInt(50)))
    /\ IsNumber(DictGet(call.analysis_data.print_time_minutes, PyInt(120)))
    /\ IsNumber(DictGet(call.analysis_data.complexity_score, PyInt(50)))
    /\ CallOptions.t = "dict"
    /\ IsNumber(DictGet(CallOptions.quantity, PyInt(1)))

C8_SilentFallback ==
    /\ (Quoted /\ UnknownLabel) =>
           /\ Returned
           /\ Amounts(Quote) =
                  Amounts(calculate_comprehensive_quote(Self, call.analysis_data, Str(PLA),
                              call.additional_options).value[1])
           /\ UsableInput => (Quote.success /\ Quote.error_message = <<>>)
    /\ Normalized => \E i \in DOMAIN KeyOrder : NormalizedKey = KeyOrder[i]

\* a priced quote for the label "unknown-xyz"
C8_Witness ==
    /\ Succeeded
    /\ call.material_type = Str(UnknownXyz)
    /\ RLt(RZero, Quote.material_cost)
    /\ RLt(RZero, Quote.time_cost)

\* a priced quote for the empty label
C8_WitnessEmpty ==
    /\ Succeeded
    /\ call.material_type = Str(<<>>)
    /\ RLt(RZero, Quote.total_cost)

(***************************************************************************)
(* C9: the breakdown of a successful quote lists, in this order, Materials *)
(* and Production always, Surcharges iff the order is a rush order,        *)
(* Adjustments iff abs(complexity_adjustment) > 0.5 (the adjustment of one *)
(* unit, strictly) and Discounts iff quantity_discount > 0, with the total *)
(* -(base_cost * quantity * quantity_discount).                            *)
(***************************************************************************)
DiscountAmount == RMul(RMul(BaseCost, CallQuantity), StepDiscount(CallQuantity))

ExpectedCategories ==
    <<"Materials", "Production">>
    \o (IF CallRush THEN <<"Surcharges">> ELSE <<>>)
    \o (IF RLt(Half, RAbs(Quote.complexity_adjustment)) THEN <<"Adjustments">> ELSE <<>>)
    \o (IF RLt(RZero, StepDiscount(CallQuantity)) THEN <<"Discounts">> ELSE <<>>)

C9_Lines ==
    /\ Categories = ExpectedCategories
    /\ \A i \in LinesOf("Discounts") : Breakdown[i].total = RNeg(DiscountAmount)

\* C9 as stated: the total of the Discounts line is negative
C9_DiscountNegative ==
    Succeeded =>
        /\ C9_Lines
        /\ \A i \in LinesOf("Discounts") : RLt(Breakdown[i].total, RZero)

\* C9 as amended: the total of the Discounts line is negative exactly when
\* the base cost is positive, and 0 when the base cost is 0
C9_Breakdown ==
    Succeeded =>
        /\ C9_Lines
        /\ \A i \in LinesOf("Discounts") :
               /\ RLt(Breakdown[i].total, RZero) <=> RLt(RZero, BaseCost)
               /\ BaseCost = RZero => Breakdown[i].total = RZero

\* ten units whose adjustment of exactly 0.5 per unit is not listed, with
\* the rush and discount lines present
C9_Witness ==
    /\ Succeeded
    /\ Quote.complexity_adjustment = Half
    /\ CallQuantity = Int2R(10)
    /\ Categories = <<"Materials", "Production", "Surcharges", "Discounts">>

(***************************************************************************)
(* C10: calculate_comprehensive_quote never raises to its caller: every    *)
(* exception of the calculation comes back as a QuoteResult with           *)
(* success = false and a non-empty error_message, and success = true holds *)
(* exactly when error_message is absent.                                   *)
(***************************************************************************)
CallRaisesInside ==
    TryBody(Self, call.analysis_data, call.material_type, call.additional_options).raised

HasMessage(quote) ==
    /\ Len(quote.error_message) = 1
    /\ quote.error_message[1][1] # ""
    /\ quote.error_message[1][2] # ""

C10_NeverRaises ==
    Quoted =>
        /\ ~outcome.raised
        /\ Len(outcome.value) = 1
        /\ Quote.success <=> Quote.error_message = <<>>
        /\ ~Quote.success => HasMessage(Quote)
        /\ CallRaisesInside => ~Quote.success

\* a call with a material_type that is not a string, answered by a failure
C10_Witness ==
    /\ Returned
    /\ call.material_type.t = "NoneType"
    /\ call.analysis_data.t = "dict"
    /\ ~Quote.success
    /\ HasMessage(Quote)

(***************************************************************************)
(* C11, as stated: a calculation whose analysis data lacks                 *)
(* filament_used_grams, print_time_minutes or complexity_score returns a   *)
(* QuoteResult with success = false and an error message.                  *)
(***************************************************************************)
MissingField == Quoted /\ call.analysis_data \in PartialAnalysis

C11_MissingFieldFails ==
    MissingField => (Returned /\ ~Quote.success /\ HasMessage(Quote))

\* the analysis data with 50.0 g, 120.0 minutes and score 50 written in for
\* the fields it lacks
Filled(analysis_data) ==
    [analysis_data EXCEPT
        !.filament_used_grams = IF @.t = "missing" THEN Num(Frac(500, 10)) ELSE @,
        !.print_time_minutes = IF @.t = "missing" THEN Num(Frac(1200, 10)) ELSE @,
        !.complexity_score = IF @.t = "missing" THEN PyInt(50) ELSE @]

StringMaterial == call.material_type.t = "str"

NumericOptions ==
    /\ CallOptions.t = "dict"
    /\ CallOptions.quantity.t \in {"missing", "num", "bool"}

(***************************************************************************)
(* C11: a calculation whose analysis data lacks a field is priced with     *)
(* the default for that field (50.0 g, 120.0 minutes, score 50): it        *)
(* returns what the call with the defaults written in returns, and with a  *)
(* string material and usable options that is a success without an error   *)
(* message, priced from the defaults.                                      *)
(***************************************************************************)
C11_MissingFieldDefaults ==
    MissingField =>
        /\ outcome = calculate_comprehensive_quote(Self, Filled(call.analysis_data),
                          call.material_type, call.additional_options)
        /\ (StringMaterial /\ NumericOptions) =>
               /\ Succeeded
               /\ Quote.error_message = <<>>
               /\ call.analysis_data.filament_used_grams = Missing =>
                      Quote.material_cost =
                          RMul(Int2R(50), ResolvedMaterial.cost_per_gram)
               /\ call.analysis_data.print_time_minutes = Missing =>
                      Quote.time_cost =
                          RMul(RMul(Int2R(2), machine_cost_per_hour),
                               ResolvedMaterial.machine_cost_multiplier)
               /\ (call.analysis_data.complexity_score = Missing) =>
                      Quote.complexity_adjustment = RZero

\* the empty analysis dictionary priced as 50 g of PLA printed in two hours
C11_Witness ==
    /\ Succeeded
    /\ call.analysis_data.filament_used_grams = Missing
    /\ call.analysis_data.print_time_minutes = Missing
    /\ call.analysis_data.complexity_score = Missing
    /\ call.material_type = Str(PLA)
    /\ Quote.material_cost = Frac(25, 10)
    /\ Quote.time_cost = Int2R(10)

(***************************************************************************)
(* C12: for valid inputs (filament mass >= 0, print time >= 0, score in    *)
(* 0..100, quantity >= 1, either rush flag, any material label) the call   *)
(* succeeds with total_cost >= 0, subtotal >= 0, overhead_cost >= 0 and    *)
(* profit_margin >= 0, although complexity_adjustment may be negative.     *)
(***************************************************************************)
ValidInput ==
    /\ Quoted
    /\ StringMaterial
    /\ call.analysis_data.t = "dict"
    /\ \A v \in {call.analysis_data.filament_used_grams,
                  call.analysis_data.print_time_minutes,
                  call.analysis_data.complexity_score} : v.t \in {"missing", "num"}
    /\ CallOptions.t = "dict"
    /\ CallOptions.quantity.t \in {"missing", "num"}
    /\ RLe(RZero, CallGrams)
    /\ RLe(RZero, CallMinutes)
    /\ RLe(RZero, CallScore) /\ RLe(CallScore, Int2R(100))
    /\ RLe(Int2R(1), CallQuantity)

C12_NonNegative ==
    ValidInput =>
        /\ Succeeded
        /\ RLe(RZero, Quote.total_cost)
        /\ RLe(RZero, Quote.subtotal)
        /\ RLe(RZero, Quote.overhead_cost)
        /\ RLe(RZero, Quote.profit_margin)
        /\ RLe(RZero, Quote.material_cost)
        /\ RLe(RZero, Quote.time_cost)

\* a discounted order of a simple model: the adjustment is negative, the
\* amounts are not
C12_Witness ==
    /\ ValidInput
    /\ Succeeded
    /\ RLt(Quote.complexity_adjustment, RZero)
    /\ RLe(Int2R(10), CallQuantity)
    /\ RLt(RZero, Quote.subtotal)
    /\ RLt(RZero, Quote.total_cost)

(***************************************************************************)
(* C13: calculate_comprehensive_quote is deterministic and idempotent:     *)
(* two calls with identical analysis data, material label and options      *)
(* return identical QuoteResults, all fields and all breakdown lines,      *)
(* whatever other calls to the same engine ran before or between them.     *)
(***************************************************************************)
HasReturned(t) == threads[t].pc = "returned"

C13_Deterministic ==
    \A s \in Threads, t \in Threads :
        (HasReturned(s) /\ HasReturned(t) /\ threads[s].passed = threads[t].passed) =>
            threads[s].result = threads[t].result

\* two threads hold equal successful results for the label "tpu-petg",
\* priced as PETG, the first key of the catalog the label holds
C13_Witness ==
    /\ HasReturned(1) /\ HasReturned(2)
    /\ threads[1].passed = ThreadCall(SlicedAnalysis, Str(TpuPetg), RushOfTen)
    /\ threads[2].passed = threads[1].passed
    /\ threads[1].result.value[1].success
    /\ threads[1].result.value[1].material_cost = Int2R(4)
    /\ threads[1].result = threads[2].result

(***************************************************************************)
(* C14: calculate_comprehensive_quote is side-effect free: the material    *)
(* catalog, the machine rate, the overhead rate, the profit-margin rate    *)
(* and the argument dictionaries stay as they were, on success and on      *)
(* failure, under every interleaving of concurrent calls, and each         *)
(* concurrent call returns what it returns when run alone.                 *)
(***************************************************************************)
FreshEngine ==
    [material_catalog |-> InitialCatalog, machine_cost_per_hour |-> Frac(500, 100),
     overhead_rate |-> Frac(10, 100), profit_margin |-> Frac(20, 100)]

C14_SideEffectFree ==
    /\ Self = FreshEngine
    /\ \A t \in DOMAIN threads :
           /\ threads[t].args = threads[t].passed
           /\ HasReturned(t) =>
                  threads[t].result =
                      calculate_comprehensive_quote(FreshEngine,
                          threads[t].passed.analysis_data, threads[t].passed.material_type,
                          threads[t].passed.additional_options)

\* one thread has returned a failure and the other a rush quote, with a
\* call in between, and the engine is as constructed
C14_Witness ==
    /\ HasReturned(1) /\ HasReturned(2)
    /\ ~threads[1].result.value[1].success
    /\ threads[2].passed.additional_options = RushOfTen
    /\ threads[2].result.value[1].success
    /\ Self = FreshEngine

(***************************************************************************)
(* What the claims read off an exchange of the web application.            *)
(***************************************************************************)
Response == exchange.handled.response

\* a quote request that passes the checks of lines 32-79: a JSON object with
\* uploadId, configuration and configuration.material, whose file exists
ReachesSlicer ==
    /\ exchange.route = "quote"
    /\ exchange.request.t = "dict"
    /\ exchange.request.uploadId \notin {<< >>, <<"">>}
    /\ exchange.request.configuration # << >>
    /\ exchange.request.configuration[1].material # << >>
    /\ \E folder \in {"uploads", "test_files"} :
           <<folder, exchange.request.uploadId[1]>> \in files

RequestPath ==
    IF <<"uploads", exchange.request.uploadId[1]>> \in files
    THEN <<"uploads", exchange.request.uploadId[1]>>
    ELSE <<"test_files", exchange.request.uploadId[1]>>

RequestMaterial ==
    LET name == exchange.request.configuration[1].material[1].name
    IN  IF name = << >> THEN Str(PLA) ELSE name[1]

RequestOptions ==
    LET configuration == exchange.request.configuration[1]
    IN  [t |-> "dict",
         quantity |-> IF configuration.quantity = << >> THEN PyInt(1)
                      ELSE PyInt(configuration.quantity[1]),
         rush_order |-> PyBool(configuration.printOptions # << >>)]

\* what the slicer set on the app answers for the file of the request
SlicerAnswer == slice_stl_file(server.app.slicer_service, files, RequestPath)

SlicerSucceeds == ~SlicerAnswer.raised /\ SlicerAnswer.value[1].success

SlicerFails == ~SlicerAnswer.raised /\ ~SlicerAnswer.value[1].success

\* what the engine returns for the analysis, material and options of the
\* request
EngineAnswer ==
    calculate_comprehensive_quote(Self, SlicerAnswer.value[1].analysis_data,
                                  RequestMaterial, RequestOptions).value[1]

Range(seq) == {seq[i] : i \in DOMAIN seq}

(***************************************************************************)
(* C15: when the pricing engine returns a QuoteResult with success =       *)
(* false, POST /quote/calculate answers with a 4xx status and success =    *)
(* false carrying the message, never with a 200 success = true response    *)
(* built from the failed QuoteResult.                                      *)
(***************************************************************************)
C15_FailedQuoteSurfaced ==
    (ReachesSlicer /\ SlicerSucceeds /\ ~EngineAnswer.success) =>
        /\ Response.status \in 400..499
        /\ ~Response.success
        /\ Range(EngineAnswer.error_message[1]) \subseteq Range(Response.message)

(***************************************************************************)
(* C16: within one quote request the slicer is invoked at most once and    *)
(* never retried; if it reports success = false the request is rejected    *)
(* with status 400, success = false and the slicer's message, if it raises *)
(* the request is rejected with status 500, and in both cases the pricing  *)
(* engine is not invoked.                                                  *)
(***************************************************************************)
C16_SlicerFailureRejected ==
    exchange.route = "quote" =>
        /\ Len(exchange.handled.slicer_calls) <= 1
        /\ (ReachesSlicer /\ SlicerFails) =>
               /\ Response.status = 400
               /\ ~Response.success
               /\ Range(SlicerAnswer.value[1].error_message) \subseteq Range(Response.message)
               /\ exchange.handled.engine_calls = 0
        /\ (ReachesSlicer /\ SlicerAnswer.raised) =>
               /\ Response.status = 500
               /\ ~Response.success
               /\ exchange.handled.engine_calls = 0

(***************************************************************************)
(* C17: a quote request with uploadId and configuration.material whose     *)
(* file exists at join(UPLOAD_FOLDER, uploadId) and whose slicing succeeds *)
(* has the slicer called with exactly that path and is answered 200 with   *)
(* success = true and with modelAnalysis.volume and                        *)
(* modelAnalysis.estimatedMaterial equal to the volume_cm3 and             *)
(* filament_used_grams the slicer returned for that file.                  *)
(***************************************************************************)
C17_SpecificFile ==
    (ReachesSlicer /\ <<"uploads", exchange.request.uploadId[1]>> \in files
       /\ SlicerSucceeds) =>
        /\ exchange.handled.slicer_calls = << <<"uploads", exchange.request.uploadId[1]>> >>
        /\ Response.status = 200
        /\ Response.success
        /\ Response.volume = <<SlicerAnswer.value[1].volume_cm3>>
        /\ Response.estimatedMaterial =
               <<R(SlicerAnswer.value[1].analysis_data.filament_used_grams)>>

(***************************************************************************)
(* C18: uploading a valid STL file under the multipart field 'file' to     *)
(* POST /upload/stl is answered 201 with success = true and a file_id that *)
(* holds the original filename, and the file is then stored at             *)
(* join(UPLOAD_FOLDER, file_id), where a later quote request finds it.     *)
(***************************************************************************)
C18_UploadStored ==
    (exchange.route = "upload" /\ exchange.request.field = "file"
       /\ exchange.request.filename # "" /\ exchange.request.valid_stl) =>
        /\ Response.status = 201
        /\ Response.success
        /\ Len(Response.file_id) = 1
        /\ \A file_id \in Range(Response.file_id) :
               /\ file_id = exchange.request.filename
               /\ <<"uploads", file_id>> \in files

(***************************************************************************)
(* C19: when the payment service is not configured (payment_service is     *)
(* None), POST /payment/create-order is answered with status 503 and an    *)
(* error.message that contains "Payment service not configured", for any   *)
(* request body, without contacting the gateway.                           *)
(***************************************************************************)
C19_NotConfigured ==
    (exchange.route = "create-order" /\ server.app.payment_service = "None") =>
        /\ Response.status = 503
        /\ "Payment service not configured" \in Range(Response.message)
        /\ exchange.handled.gateway_calls = 0

(***************************************************************************)
(* C20: after create_app with empty PayPal credentials, file_service,      *)
(* slicer_service and pricing_engine are set on the app and                *)
(* payment_service is None; GET /health is answered 200 with status        *)
(* 'healthy', the three services 'initialized' and payment_service not     *)
(* initialized.                                                            *)
(***************************************************************************)
C20_ServicesAfterCreateApp ==
    (server.app.made_by = "create_app" /\ server.env.PAYPAL_CLIENT_ID = ""
       /\ server.env.PAYPAL_CLIENT_SECRET = "") =>
        /\ server.app.state = "serving"
        /\ Initialized(server.app.file_service)
        /\ Initialized(server.app.slicer_service)
        /\ Initialized(server.app.pricing_engine)
        /\ server.app.payment_service = "None"
        /\ health_check(server.app).status = 200
        /\ \A h \in Range(health_check(server.app).health) :
               /\ h.status = "healthy"
               /\ h.file_service = "initialized"
               /\ h.slicer_service = "initialized"
               /\ h.pricing_engine = "initialized"
               /\ h.payment_service # "initialized"
        /\ health_check(server.app).health # << >>

(***************************************************************************)
(* C30: in every successful quote each breakdown line has total =          *)
(* quantity * unitPrice, and the line totals add up to subtotal +          *)
(* rush_surcharge when the Adjustments line is present or the adjustment   *)
(* is 0, and to subtotal + rush_surcharge - complexity_adjustment *        *)
(* quantity when the line is left out with an adjustment that is not 0     *)
(* (then 0 < abs(complexity_adjustment) <= 0.5); overhead and profit       *)
(* margin are never itemized.                                              *)
(***************************************************************************)
RECURSIVE SumOfTotals(_)
SumOfTotals(lines) ==
    IF lines = << >> THEN RZero
    ELSE RAdd(lines[1].total, SumOfTotals(Tail(lines)))

AdjustmentListed == LinesOf("Adjustments") # {}

C30_BreakdownSums ==
    Succeeded =>
        /\ \A i \in DOMAIN Breakdown :
               /\ Breakdown[i].total = RMul(Breakdown[i].quantity, Breakdown[i].unitPrice)
               /\ Breakdown[i].category \in
                      {"Materials", "Production", "Surcharges", "Adjustments", "Discounts"}
        /\ (AdjustmentListed \/ Quote.complexity_adjustment = RZero) =>
               SumOfTotals(Breakdown) = RAdd(Quote.subtotal, ClaimedRushSurcharge)
        /\ (~AdjustmentListed /\ Quote.complexity_adjustment # RZero) =>
               /\ RLe(RAbs(Quote.complexity_adjustment), Half)
               /\ SumOfTotals(Breakdown) =
                      RSub(RAdd(Quote.subtotal, ClaimedRushSurcharge),
                           RMul(Quote.complexity_adjustment, CallQuantity))

\* a rush order of seven with a discount whose adjustment of -0.5 a unit is
\* left out of the lines
C30_Witness ==
    /\ Succeeded
    /\ CallQuantity = Int2R(7)
    /\ CallRush
    /\ ~AdjustmentListed
    /\ Quote.complexity_adjustment = RNeg(Half)
    /\ Len(Breakdown) = 4
    /\ SumOfTotals(Breakdown) # RAdd(Quote.subtotal, ClaimedRushSurcharge)

(***************************************************************************)
(* C22: every quantity the quote endpoint passes to the pricing engine is  *)
(* an integer >= 1; a quote request whose configuration.quantity is 0 or   *)
(* negative is rejected as invalid (status 400) and never priced, neither  *)
(* by the handler as a whole nor by its lines 97-207 run on that request.  *)
(***************************************************************************)
RequestQuantity ==
    LET configuration == exchange.request.configuration[1]
    IN  IF configuration.quantity = << >> THEN 1 ELSE configuration.quantity[1]

C22_QuantityAtLeastOne ==
    (ReachesSlicer /\ RequestQuantity < 1) =>
        /\ Response.status = 400
        /\ ~Response.success
        /\ exchange.handled.engine_calls = 0
        /\ QuoteAfterFlush(server.app, Self, files, RequestPath, RequestMaterial,
                           RequestQuantity, FALSE).engine_calls = 0

(***************************************************************************)
(* C21: the amount of the order that create-order submits to the payment   *)
(* gateway is the total_cost the pricing engine computed for a quote: it   *)
(* is among the totals the engine returns for the analyses, materials and  *)
(* options that quote requests carry, never an amount unrelated to them.   *)
(***************************************************************************)
CreateOrder == exchange.route = "create-order"

RequestedQuotes ==
    { calculate_comprehensive_quote(Self, analysis_data, material_type,
                                    [t |-> "dict", quantity |-> PyInt(quantity),
                                     rush_order |-> PyBool(rush_order)]).value[1] :
          analysis_data \in {SlicedAnalysis, DoubleAnalysis("a.stl"), DoubleAnalysis("b.stl")},
          material_type \in {Str(PLA), NoneMaterial},
          quantity \in {1, 10},
          rush_order \in BOOLEAN }

C21_AmountIsQuoteTotal ==
    (CreateOrder /\ exchange.handled.gateway_calls = 1) =>
        \E quote_result \in RequestedQuotes :
            /\ quote_result.success
            /\ exchange.handled.order.amount \in
                   {quote_result.total_cost, Round2(quote_result.total_cost)}

(***************************************************************************)
(* C24: create-order calls the gateway's create_order only after the       *)
(* checks pass, in this order: JSON body (else 400), quote_id and          *)
(* customer_email with '@' (else 422), quote found (else 404), quote not   *)
(* expired (else 410); a rejected request makes no gateway call, a request *)
(* makes at most one, and a gateway failure yields 422 without retry.      *)
(***************************************************************************)
HasBody ==
    /\ exchange.request.t = "dict"
    /\ exchange.request.quote_id # << >> \/ exchange.request.customer_email # << >>

ValidPayment ==
    /\ exchange.request.quote_id # << >>
    /\ exchange.request.customer_email \notin {<< >>, <<"not-an-address">>}

Expired == exchange.clock = "after expires_at"

C23_CaptureReported ==
    (exchange.route = "capture-order" /\ exchange.handled.gateway_calls = 1
       /\ exchange.gateway = "captures") =>
        /\ Response.status = 200
        /\ Response.success
        /\ Response.transaction_id =
               PaymentResult(exchange.request.order_id[1], "captures").transaction_id
        /\ Response.payment_status = <<"completed">>
        /\ Response.total = PaymentResult(exchange.request.order_id[1], "captures").amount

(***************************************************************************)
(* C25: with a webhook ID configured, a webhook whose signature is invalid *)
(* (missing, or not the one PayPal made) is rejected with 'Invalid         *)
(* signature' and a status other than 200, and no event handler runs;      *)
(* handlers run only for a request whose signature was verified.           *)
(***************************************************************************)
C25_InvalidSignatureRejected ==
    (exchange.route = "webhook" /\ exchange.request.t = "json"
       /\ server.app.payment_service = "PayPalService"
       /\ exchange.webhook_id # "" /\ exchange.headers.signature # "genuine") =>
        /\ Response.status # 200
        /\ Response.message = <<"Invalid signature">>
        /\ exchange.handled.handlers = << >>

(***************************************************************************)
(* C26: POST /upload/cleanup with max_age_hours = h removes every expired  *)
(* temporary file and every expired stored upload (older than h hours,     *)
(* all of them with force_cleanup), leaves the files newer than the cutoff *)
(* and returns cleaned_count, the number of files it removed.              *)
(***************************************************************************)
CleanupHours ==
    IF exchange.request.max_age_hours = << >> THEN 24 ELSE exchange.request.max_age_hours[1]

ExpiredBefore ==
    {file_path \in exchange.before :
        /\ file_path[1] \in {"tmp", "uploads"}
        /\ exchange.request.force_cleanup \/ HoursOld(file_path) > CleanupHours}

C26_CleanupRemovesExpired ==
    exchange.route = "cleanup" =>
        /\ files = exchange.before \ ExpiredBefore
        /\ Response.status = 200
        /\ Response.cleaned_count = <<Cardinality(exchange.before \ files)>>

(***************************************************************************)
(* C27: after FileService.process_upload returns, a file of the upload is  *)
(* in the upload directory only if the upload passed validation, did not   *)
(* exceed max_file_size and no threat was detected; when the result is     *)
(* success = false no file of the upload is in the upload directory and    *)
(* none is left at its temporary path (a threat-flagged file may only be   *)
(* in the quarantine directory).                                           *)
(***************************************************************************)
ProcessedUpload == exchange.route = "process_upload"

UploadName == generate_secure_filename(exchange.request.filename)

\* the files that the call of process_upload has added
UploadWrote == files \ exchange.before

ThreatDetected ==
    /\ exchange.config.virus_scan_enabled
    /\ exchange.scanner = "detecting"

C27_RejectedUploadLeavesNothing ==
    ProcessedUpload =>
        /\ <<"uploads", UploadName>> \in UploadWrote =>
               /\ exchange.request.filename # "" /\ exchange.request.valid_stl
               /\ exchange.request.size = "fits"
               /\ ~ThreatDetected
        /\ ~Response.success =>
               /\ <<"uploads", UploadName>> \notin UploadWrote
               /\ <<"tmp", UploadName>> \notin files
        /\ <<"tmp/quarantine", UploadName>> \in UploadWrote => ThreatDetected
        /\ UploadWrote \subseteq
               {<<"uploads", UploadName>>, <<"tmp/quarantine", UploadName>>}
        /\ exchange.before \subseteq files

(***************************************************************************)
(* C28: _get_access_token asks the gateway for a token iff no token is     *)
(* cached or the time is not earlier than token_expires_at minus 5         *)
(* minutes, and else returns the cached token without a gateway call; a    *)
(* request answered 200 replaces the cached token and sets the expiry to   *)
(* now + expires_in (3600 s when absent); a request answered otherwise, or *)
(* not getting through, raises PayPalAPIError and leaves token and expiry  *)
(* as they were.                                                           *)
(***************************************************************************)
TokenCallsMade ==
    {paypal.tasks[t].token_call : t \in Tasks} \ {NoTokenCall}

C28_TokenCache ==
    paypal.state = "service" =>
        \A c \in TokenCallsMade :
            /\ c.attempted <=>
                   (c.before_token = << >> \/ c.now >= c.before_expiry[1] - 5)
            /\ ~c.attempted =>
                   /\ c.raised = "" /\ c.returned = c.before_token
                   /\ c.access_token = c.before_token
                   /\ c.token_expires_at = c.before_expiry
            /\ (c.answered /\ c.answer.status = 200) =>
                   /\ c.raised = "" /\ c.returned = <<c.answer.access_token>>
                   /\ c.access_token = <<c.answer.access_token>>
                   /\ c.token_expires_at =
                          <<c.now + (IF c.answer.expires_in = << >> THEN 60
                                     ELSE c.answer.expires_in[1] \div 60)>>
            /\ (c.answered /\ c.answer.status # 200) =>
                   /\ c.raised = "PayPalAPIError"
                   /\ c.access_token = c.before_token
                   /\ c.token_expires_at = c.before_expiry

C28_Witness ==
    /\ paypal.state = "service"
    /\ \E c \in TokenCallsMade :
           /\ c.attempted /\ c.answered
           /\ c.before_token # << >>
           /\ c.now = c.before_expiry[1] - 5
           /\ c.answer.status = 200
           /\ c.access_token # c.before_token
    /\ \E c \in TokenCallsMade :
           /\ ~c.attempted
           /\ c.now = c.before_expiry[1] - 6

(***************************************************************************)
(* C29: when two payment requests use the one payment service at the same  *)
(* time through `async with current_app.payment_service`, every gateway    *)
(* call of each request is made on a session that is still open, and every *)
(* session that was opened is closed exactly once.                         *)
(***************************************************************************)
AllIdle == \A t \in Tasks : paypal.tasks[t].pc = "idle"

C29_SessionsNotShared ==
    paypal.state = "service" =>
        /\ \A t \in Tasks : ~paypal.tasks[t].on_closed
        /\ \A n \in DOMAIN paypal.sessions : paypal.sessions[n] <= 1
        /\ AllIdle => \A n \in DOMAIN paypal.sessions : paypal.sessions[n] = 1

====
